---------------------------- MODULE Spec2Model ----------------------------
(***************************************************************************)
(* Model of the terminal analytics engine (analytics_visualizer.py):       *)
(* TerminalAnalytics.display_analytics and the view builders it calls;     *)
(* and of the database sessions (session_manager.py, llm_tools.py) with    *)
(* the DatabaseAgent calls that use them (database_agents.py).             *)
(*                                                                         *)
(* Encodings.                                                              *)
(*   cell      [k, n, s]   k in {"int","float","str","ts","null"}; "null"  *)
(*                         is the NaN/None pandas puts where a key is      *)
(*                         missing.  A float cell holds its value in       *)
(*                         tenths; a column holds floats or ints, not      *)
(*                         both, and its statistics are in its own unit.   *)
(*   record    sequence of [key, val] (a Python dict, insertion ordered)   *)
(*   DataFrame [n, cols]   n rows; cols a sequence of [name, dtype, vals]  *)
(*   title     sequence of string pieces (an f-string's parts, in order)   *)
(*   label     [kind, a, b, s]  a bar chart key: a cell, or a histogram    *)
(*                         bin "a-b" with both edges in tenths             *)
(*   panel     [type, ...]  "text" (markup string body), "chart", "table"  *)
(***************************************************************************)
EXTENDS Integers, Sequences, FiniteSets, TLC

VARIABLES
    records,     \* the list of records the caller has built so far
    clock,       \* wall clock (datetime.now()), in seconds since the caller
                 \* took up the current input
    call,        \* arguments of the last display_analytics call
    printed,     \* artifacts the last call handed to console.print, in order
    invoked,     \* view builders the last call invoked directly, in order
    raised,      \* whether the last call raised to its caller
    prev,        \* what the call before printed, when it had the same arguments
    chart_data,  \* label->value dict a caller has built for create_bar_chart
    chart_out,   \* result of the last direct create_bar_chart call
    tier_val,    \* a correlation coefficient handed to the cell renderer
    tier_cell,   \* the matrix cell rendered for tier_val
    direct,      \* the last direct call of a view builder, with its result
    tie_order,   \* how this build's value_counts() orders equal counts
    session_mgr, \* the SessionManager: sessions and current_session_id
    reply,       \* the last call of a tool or a query, with what it returned
    code_saved,  \* ids save_connection_code has been called with
    sys_stdout,  \* the stream sys.stdout is bound to
    conn         \* the connect_database call under way, with its worker

vars == <<records, clock, call, printed, invoked, raised, prev,
          chart_data, chart_out, tier_val, tier_cell, direct, tie_order,
          session_mgr, reply, code_saved, sys_stdout, conn>>

---------------------------------------------------------------------------
(* Bounds of the model *)

MaxRows == 2        \* records in the caller's list
MaxClock == 1       \* seconds the wall clock may advance
MaxValue == 3       \* largest value of a direct bar chart entry
NegRange == 1       \* direct bar chart values go down to -NegRange
MaxBarsArg == 3     \* largest max_bars argument of a direct call
MaxSessions == 2   \* sessions created

(* Program constants *)

BarColumns == 40      \* width of the fill bar
ValueWidth == 8       \* width the value is right-aligned to
DefaultMaxBars == 20  \* create_bar_chart(max_bars=20)
DefaultBins == 10     \* create_distribution_chart(bins=10)
TopValues == 10       \* value_counts().head(10) of the dashboard
PreviewRows == 10     \* create_data_table(max_rows=10) of the dashboard
DefaultTableRows == 20 \* create_data_table(max_rows=20)
SummaryNumericCols == 5
SummaryTextCols == 3

---------------------------------------------------------------------------
(* Scalars and records *)

Null == [k |-> "null", n |-> 0, s |-> ""]
IntCell(i) == [k |-> "int", n |-> i, s |-> ""]
FloatCell(t) == [k |-> "float", n |-> t, s |-> ""]
StrCell(x) == [k |-> "str", n |-> 0, s |-> x]
TsCell(t) == [k |-> "ts", n |-> t, s |-> ""]

KV(key, val) == [key |-> key, val |-> val]

\* The records a caller passes: query rows of differing shape.
Records ==
    { << >>,
      << KV("product", StrCell("A")), KV("sales", IntCell(3)) >>,
      << KV("sales", IntCell(2)), KV("profit", IntCell(4)) >>,
      << KV("region", StrCell("N")), KV("product", StrCell("A")) >>,
      << KV("product", StrCell("B")) >>,
      << KV("when", TsCell(1)) >>,
      << KV("cost", IntCell(1)) >> }

\* Inputs that are neither list, dict nor DataFrame.
Others == {"None", "str"}

Views == {"dashboard", "summary", "table", "correlation", "pie"}
Titles == { <<"Analytics: ", "q">> }
ChartLabels == {"a", "bb", "c"}
ChartTitle == <<"Bar Chart">>

Abs(x) == IF x < 0 THEN 0 - x ELSE x

Range(s) == {s[i] : i \in 1..Len(s)}

RECURSIVE Dedup(_)
Dedup(s) ==
    IF s = << >> THEN << >>
    ELSE <<Head(s)>> \o Dedup(SelectSeq(Tail(s), LAMBDA x : x # Head(s)))

RECURSIVE Concat(_)
Concat(ss) == IF ss = << >> THEN << >> ELSE Head(ss) \o Concat(Tail(ss))

Take(s, k) == SubSeq(s, 1, IF k < Len(s) THEN k ELSE Len(s))

---------------------------------------------------------------------------
(* pandas: DataFrame construction and the queries the engine makes *)

RecordKeys(rec) == [i \in 1..Len(rec) |-> rec[i].key]

\* variant: a missing key is filled with 0
Lookup_MissingAsZero(rec, key) ==
    IF \E i \in 1..Len(rec) : rec[i].key = key
    THEN rec[CHOOSE i \in 1..Len(rec) : rec[i].key = key].val
    ELSE IntCell(0)

\* rec.get(key, NaN)
Lookup(rec, key) ==
    IF \E i \in 1..Len(rec) : rec[i].key = key
    THEN rec[CHOOSE i \in 1..Len(rec) : rec[i].key = key].val
    ELSE Null

NonNull(vals) == SelectSeq(vals, LAMBDA c : c.k # "null")

\* dtype pandas infers for a column of cells
InferDtype(vals) ==
    LET nn == NonNull(vals) IN
    IF \A i \in 1..Len(nn) : nn[i].k = "int"
    THEN (IF Len(nn) = Len(vals) THEN "int64" ELSE "float64")
    ELSE IF \A i \in 1..Len(nn) : nn[i].k \in {"int", "float"} THEN "float64"
    ELSE IF \A i \in 1..Len(nn) : nn[i].k = "ts" THEN "datetime64"
    ELSE "object"

\* pd.DataFrame(list_of_dicts): one row per record, columns the union of the
\* keys in first-seen order, NaN where a record lacks the key
DataFrameOf(recs) ==
    LET keys == Dedup(Concat([i \in 1..Len(recs) |-> RecordKeys(recs[i])]))
        colvals(key) == [i \in 1..Len(recs) |-> Lookup(recs[i], key)]
    IN  [n |-> Len(recs),
         cols |-> [j \in 1..Len(keys) |->
                     [name |-> keys[j],
                      dtype |-> InferDtype(colvals(keys[j])),
                      vals |-> colvals(keys[j])]]]

\* df.iloc[0:0]: the same columns and dtypes, no rows
ZeroRows(df) ==
    [n |-> 0,
     cols |-> [j \in 1..Len(df.cols) |->
                 [name |-> df.cols[j].name, dtype |-> df.cols[j].dtype,
                  vals |-> << >>]]]

\* variant: len(df) == 0 in place of df.empty
IsEmpty_RowsOnly(df) == df.n = 0

\* df.empty
IsEmpty(df) == df.n = 0 \/ Len(df.cols) = 0

\* df.select_dtypes(include=[np.number]).columns
NumericCols(df) ==
    SelectSeq(df.cols, LAMBDA c : c.dtype \in {"int64", "float64"})

\* df.select_dtypes(include=['object', 'string']).columns
StringCols(df) == SelectSeq(df.cols, LAMBDA c : c.dtype = "object")

\* series.value_counts(): distinct non-null values with their counts, most
\* frequent first, equal counts in first-seen order
CountOf(vals, v) == Cardinality({i \in 1..Len(vals) : vals[i] = v})

\* A chart value is value + half / 2: an int, a float (the only kind with a
\* fraction; halves are enough of them here) or a numpy integer.
Twice(e) == 2 * e.value + e.half

\* variant: sort ascending, then reverse the list (ties come out reversed)
SortDesc_TiesReversed(s) ==
    LET pos == [i \in 1..Len(s) |->
                  1 + Cardinality({j \in 1..Len(s) :
                                     \/ Twice(s[j]) > Twice(s[i])
                                     \/ Twice(s[j]) = Twice(s[i]) /\ j > i})]
    IN  [k \in 1..Len(s) |-> s[CHOOSE i \in 1..Len(s) : pos[i] = k]]

\* sorted(items, key=value, reverse=True): largest value first; Python's sort
\* is stable, so entries of equal value keep their relative order.  Entry i
\* lands after the entries that are larger and the equal ones before it.
SortDesc(s) ==
    LET pos == [i \in 1..Len(s) |->
                  1 + Cardinality({j \in 1..Len(s) :
                                     \/ Twice(s[j]) > Twice(s[i])
                                     \/ Twice(s[j]) = Twice(s[i]) /\ j < i})]
    IN  [k \in 1..Len(s) |-> s[CHOOSE i \in 1..Len(s) : pos[i] = k]]

LabelOfCell(c) == [kind |-> c.k, a |-> c.n, b |-> 0, s |-> c.s]
BinLabel(lo, hi) == [kind |-> "bin", a |-> lo, b |-> hi, s |-> ""]
\* a dict item whose value is a Python int
Entry(label, value) ==
    [label |-> label, value |-> value, half |-> 0, vtype |-> "int"]
\* ... a numpy integer (np.histogram's counts)
NpEntry(label, value) ==
    [label |-> label, value |-> value, half |-> 0, vtype |-> "np.int64"]
\* ... a Python float, value + half / 2
FloatEntry(label, value, half) ==
    [label |-> label, value |-> value, half |-> half, vtype |-> "float"]

\* d[label] = value on an insertion-ordered dict: a present key keeps its
\* place and takes the new value, a new key goes last
DictPut(d, e) ==
    IF \E i \in 1..Len(d) : d[i].label = e.label
    THEN [i \in 1..Len(d) |-> IF d[i].label = e.label THEN e ELSE d[i]]
    ELSE Append(d, e)

\* The orders a build can give to equal counts: value_counts() sorts with
\* Series.sort_values(ascending=False) and its default kind="quicksort",
\* which is not a stable sort.
TieOrders == {"first_seen", "reversed"}

\* result.sort_values(ascending=False): larger counts first, equal counts in
\* the order this build gives them
SortValues(s) ==
    LET ahead(j, i) == IF tie_order = "first_seen" THEN j < i ELSE j > i
        pos == [i \in 1..Len(s) |->
                  1 + Cardinality({j \in 1..Len(s) :
                                     \/ s[j].value > s[i].value
                                     \/ s[j].value = s[i].value /\ ahead(j, i)})]
    IN  [k \in 1..Len(s) |-> s[CHOOSE i \in 1..Len(s) : pos[i] = k]]

\* series.value_counts(): the distinct non-null values with their counts,
\* most frequent first (the counts become Python ints in to_dict())
ValueCounts(vals) ==
    LET nn == NonNull(vals)
        firsts == Dedup(nn)
    IN  SortValues([i \in 1..Len(firsts) |->
                      Entry(LabelOfCell(firsts[i]), CountOf(nn, firsts[i]))])

---------------------------------------------------------------------------
(* rich: panels *)

NoTitle == << >>

TextPanel(text, title, border) ==
    [type |-> "text", text |-> text, title |-> title, border |-> border]

---------------------------------------------------------------------------
(* create_bar_chart *)

\* int(x) of the quotient a / b, b > 0: Python's int() drops the fraction
TruncDiv(a, b) == IF a >= 0 THEN a \div b ELSE 0 - ((0 - a) \div b)

\* a / b rounded to the nearest integer, halves to even, b > 0
RoundDiv(a, b) ==
    LET q == a \div b
        twice == 2 * (a - q * b)
    IN  IF twice < b THEN q
        ELSE IF twice > b THEN q + 1
        ELSE IF q % 2 = 0 THEN q ELSE q + 1

RECURSIVE DigitCount(_)
DigitCount(n) == IF n < 10 THEN 1 ELSE 1 + DigitCount(n \div 10)

\* len(f"{x:.1f}") for x given in tenths
TenthsLen(t) == (IF t < 0 THEN 1 ELSE 0) + DigitCount(Abs(t) \div 10) + 2

\* len(str(label))
LabelLen(l) ==
    CASE l.kind = "str" -> Len(l.s)
      [] l.kind = "bin" -> TenthsLen(l.a) + 1 + TenthsLen(l.b)
      [] l.kind = "float" -> TenthsLen(l.a)
      [] OTHER -> (IF l.a < 0 THEN 1 ELSE 0) + DigitCount(Abs(l.a))

MaxOf(S) == CHOOSE m \in S : \A x \in S : x <= m
MinOf(S) == CHOOSE m \in S : \A x \in S : m <= x

\* variant: floor division (value * 40 // max_value) in place of int()
BarWidthOf_Floor(value, max_value) ==
    IF max_value > 0 THEN (value * BarColumns) \div max_value ELSE 0

\* bar_width = int((value / max_value) * 40) if max_value > 0 else 0
BarWidthOf(value, max_value) ==
    IF max_value > 0 THEN TruncDiv(value * BarColumns, max_value) ELSE 0

\* variant: only a whole value gets the .0f format
ValueStr_AsGiven(e) ==
    IF e.vtype \in {"int", "float"} /\ e.half = 0
    THEN [fmt |-> ">8.0f", width |-> ValueWidth, n |-> e.value]
    ELSE [fmt |-> ">8", width |-> ValueWidth, n |-> e.value]

\* value_str: f"{value:>8.0f}" for an int or float, f"{value:>8}" for any
\* other type; n is the integer the digits show (.0f rounds halves to even)
ValueStr(e) ==
    IF e.vtype \in {"int", "float"}
    THEN [fmt |-> ">8.0f", width |-> ValueWidth, n |-> RoundDiv(Twice(e), 2)]
    ELSE [fmt |-> ">8", width |-> ValueWidth, n |-> e.value]

\* one chart line; max_value comes doubled, like Twice(e).  percentage =
\* (value / max_value) * 100 is kept as the fraction pct_num / pct_den, and
\* pct_tenths is what {percentage:5.1f} shows
ChartLine(e, max_value, max_label_width) ==
    LET bar_width == BarWidthOf(Twice(e), max_value)
        pnum == IF max_value > 0 THEN Twice(e) * 100 ELSE 0
        pden == IF max_value > 0 THEN max_value ELSE 1
    IN  [label |-> e.label,
         label_width |-> max_label_width,
         bar_width |-> bar_width,
         bar_len |-> IF bar_width > 0 THEN bar_width ELSE 0,
         value |-> e.value,
         half |-> e.half,
         vtype |-> e.vtype,
         value_str |-> ValueStr(e),
         pct_num |-> pnum,
         pct_den |-> pden,
         pct_tenths |-> RoundDiv(pnum * 10, pden)]

\* sorted(data.items(), key=value, reverse=True)[:max_bars]
SortedData(data, max_bars) == Take(SortDesc(data), max_bars)

create_bar_chart(data, title, max_bars) ==
    IF data = << >>
    THEN TextPanel("[red]No data for chart[/red]", title, "none")
    ELSE LET sorted_data == SortedData(data, max_bars)
             max_value ==
                 IF sorted_data = << >> THEN 2
                 ELSE MaxOf({Twice(sorted_data[i]) : i \in 1..Len(sorted_data)})
             max_label_width ==
                 IF sorted_data = << >> THEN 10
                 ELSE MaxOf({LabelLen(sorted_data[i].label) :
                                i \in 1..Len(sorted_data)})
         IN  [type |-> "chart", title |-> title, border |-> "blue",
              lines |-> [i \in 1..Len(sorted_data) |->
                           ChartLine(sorted_data[i], max_value, max_label_width)]]

---------------------------------------------------------------------------
(* create_distribution_chart *)

IntsOf(cells) == [i \in 1..Len(cells) |-> cells[i].n]

\* the numbers of a numeric column, in tenths
Tenths(c) == IF c.k = "float" THEN c.n ELSE 10 * c.n
TenthsOf(cells) == [i \in 1..Len(cells) |-> Tenths(cells[i])]

\* np.histogram(values, bins): equal-width bins over [min, max] (widened by
\* 0.5 on each side when min = max), the last bin closed.  Edges are kept
\* exact: the values xs are in tenths, lo2 and hi2 are twice the outer edges
\* in tenths.
HistLo2(xs) ==
    LET lo == MinOf(Range(xs)) hi == MaxOf(Range(xs))
    IN  IF lo = hi THEN 2 * lo - 10 ELSE 2 * lo

HistHi2(xs) ==
    LET lo == MinOf(Range(xs)) hi == MaxOf(Range(xs))
    IN  IF lo = hi THEN 2 * hi + 10 ELSE 2 * hi

\* index (from 0) of the bin x falls in, lo2 and hi2 twice the outer edges
BinIndex(x, lo2, hi2, bins) ==
    IF 2 * x = hi2 THEN bins - 1
    ELSE ((2 * x - lo2) * bins) \div (hi2 - lo2)

\* bin_edges[i] as f"{edge:.1f}" shows it, in tenths
EdgeTenths(i, lo2, hi2, bins) ==
    RoundDiv(lo2 * bins + i * (hi2 - lo2), 2 * bins)

\* the (bin_label, hist[i]) pairs of the labelling loop, in loop order
HistItems(xs, bins) ==
    LET lo2 == HistLo2(xs)
        hi2 == HistHi2(xs)
        idx == [j \in 1..Len(xs) |-> BinIndex(xs[j], lo2, hi2, bins)]
    IN  [i \in 1..bins |->
           NpEntry(BinLabel(EdgeTenths(i - 1, lo2, hi2, bins),
                            EdgeTenths(i, lo2, hi2, bins)),
                   Cardinality({j \in 1..Len(xs) : idx[j] = i - 1}))]

\* the dict that d[label] = value for each item in turn leaves: one entry per
\* label, placed where the label first came, holding the value that came last
DictOf(items) ==
    LET labels == Dedup([i \in 1..Len(items) |-> items[i].label])
        last(l) == MaxOf({i \in 1..Len(items) : items[i].label = l})
    IN  [j \in 1..Len(labels) |-> items[last(labels[j])]]

\* hist_data of the numeric branch
HistData(xs, bins) == DictOf(HistItems(xs, bins))

\* variant: a range of width zero counts as a failure too
BinningFails_OnDegenerate(clean) ==
    \/ \E i \in 1..Len(clean) : clean[i].k \notin {"int", "float"}
    \/ \A i, j \in 1..Len(clean) : clean[i].n = clean[j].n

\* np.histogram raises on values that are not numbers
BinningFails(clean) ==
    \E i \in 1..Len(clean) : clean[i].k \notin {"int", "float"}

create_distribution_chart(series, title, bins) ==
    LET clean_data == NonNull(series.vals)
        hist_data ==
            IF series.dtype = "object"
            THEN Take(ValueCounts(clean_data), bins)
            ELSE IF BinningFails(clean_data)
            THEN Take(ValueCounts(clean_data), bins)
            ELSE HistData(TenthsOf(clean_data), bins)
    IN  IF Len(series.vals) = 0
        THEN TextPanel("[red]No data available[/red]", title, "none")
        ELSE IF Len(clean_data) = 0
        THEN TextPanel("[red]No valid data after removing nulls[/red]",
                       title, "none")
        ELSE create_bar_chart(hist_data, title \o <<" Distribution">>,
                              DefaultMaxBars)

---------------------------------------------------------------------------
(* create_correlation_matrix *)

\* A coefficient r is kept exact as the signed square num / den:
\* r = sign(num) * sqrt(|num| / den), den > 0; nan marks an undefined one.
NaN == [nan |-> TRUE, num |-> 0, den |-> 1]
Coef(num, den) == [nan |-> FALSE, num |-> num, den |-> den]

\* the coefficient c / 100
Hundredths(c) == Coef(c * Abs(c), 10000)

StrongTenths == 7
ModerateTenths == 3

\* variant: abs(val) >= t / 10
AbsExceeds_Inclusive(val, t) == 100 * Abs(val.num) >= t * t * val.den

\* abs(val) > t / 10
AbsExceeds(val, t) == 100 * Abs(val.num) > t * t * val.den

Tier(val) ==
    IF AbsExceeds(val, StrongTenths) THEN "strong"
    ELSE IF AbsExceeds(val, ModerateTenths) THEN "moderate"
    ELSE "weak"

TierStyle(tier) ==
    CASE tier = "strong" -> "bold red"
      [] tier = "moderate" -> "yellow"
      [] OTHER -> "dim"

\* variant: an undefined coefficient shown as 0.00
CorrCell_NanAsZero(val) ==
    IF val.nan THEN [glyph |-> ".2f", style |-> "dim", val |-> Coef(0, 1)]
    ELSE [glyph |-> ".2f", style |-> TierStyle(Tier(val)), val |-> val]

\* one cell of the matrix
CorrCell(val) ==
    IF val.nan THEN [glyph |-> "-", style |-> "none", val |-> val]
    ELSE [glyph |-> ".2f", style |-> TierStyle(Tier(val)), val |-> val]

RECURSIVE SumUpTo(_, _)
SumUpTo(f, k) == IF k = 0 THEN 0 ELSE f[k] + SumUpTo(f, k - 1)
Sum(f) == SumUpTo(f, Len(f))

\* DataFrame.corr() entry of columns x and y: Pearson's r over the rows where
\* both are present; undefined with fewer than two rows or a zero variance
Pearson(x, y) ==
    LET rows == {i \in 1..Len(x.vals) :
                    x.vals[i].k # "null" /\ y.vals[i].k # "null"}
        n == Cardinality(rows)
        S(f(_)) == LET RECURSIVE Acc(_)
                       Acc(R) == IF R = {} THEN 0
                                 ELSE LET i == CHOOSE j \in R : TRUE
                                      IN  f(i) + Acc(R \ {i})
                   IN  Acc(rows)
        xv(i) == x.vals[i].n
        yv(i) == y.vals[i].n
        xx(i) == xv(i) * xv(i)
        yy(i) == yv(i) * yv(i)
        xy(i) == xv(i) * yv(i)
        sxx == n * S(xx) - S(xv) * S(xv)
        syy == n * S(yy) - S(yv) * S(yv)
        sxy == n * S(xy) - S(xv) * S(yv)
    IN  IF n < 2 \/ sxx = 0 \/ syy = 0 THEN NaN
        ELSE Coef((IF sxy < 0 THEN 0 - 1 ELSE 1) * sxy * sxy, sxx * syy)

\* variant: only the number of numeric columns is looked at
create_correlation_matrix_ColumnsOnly(df, title) ==
    LET numeric == NumericCols(df) IN
    IF Len(numeric) < 2
    THEN TextPanel("[yellow]Not enough numeric columns for correlation[/yellow]",
                   title, "none")
    ELSE [type |-> "matrix", title |-> title, border |-> "magenta",
          columns |-> [j \in 1..Len(numeric) |-> numeric[j].name],
          rows |-> [i \in 1..Len(numeric) |->
                      [head |-> numeric[i].name,
                       cells |-> [j \in 1..Len(numeric) |->
                                    CorrCell(Pearson(numeric[i], numeric[j]))]]]]

create_correlation_matrix(df, title) ==
    LET numeric == NumericCols(df) IN
    IF df.n = 0 \/ Len(numeric) < 2
    THEN TextPanel("[yellow]Not enough numeric columns for correlation[/yellow]",
                   title, "none")
    ELSE [type |-> "matrix", title |-> title, border |-> "magenta",
          columns |-> [j \in 1..Len(numeric) |-> numeric[j].name],
          rows |-> [i \in 1..Len(numeric) |->
                      [head |-> numeric[i].name,
                       cells |-> [j \in 1..Len(numeric) |->
                                    CorrCell(Pearson(numeric[i], numeric[j]))]]]]

---------------------------------------------------------------------------
(* create_summary_stats and create_data_table *)

Metric(name, kind, a, b) == [metric |-> name, kind |-> kind, a |-> a, b |-> b]

\* the (avg) and (min-max) rows of one numeric column; none when all null
NumericRows(col) ==
    LET values == IntsOf(NonNull(col.vals)) IN
    IF Len(values) = 0 THEN << >>
    ELSE << Metric(<<"  ", col.name, " (avg)">>, "mean", Sum(values), Len(values)),
            Metric(<<"  ", col.name, " (min-max)">>, "range",
                   MinOf(Range(values)), MaxOf(Range(values))) >>

\* the (unique) row of one text column: series.nunique()
TextRow(col) ==
    Metric(<<"  ", col.name, " (unique)">>, "count",
           Cardinality(Range(NonNull(col.vals))), 0)

\* numeric_cols[:5]
ShownNumeric(numeric_cols) == Take(numeric_cols, SummaryNumericCols)

\* variant: every text column gets its row
ShownText_All(string_cols) == string_cols

\* string_cols[:3]
ShownText(string_cols) == Take(string_cols, SummaryTextCols)

create_summary_stats(df, title) ==
    IF IsEmpty(df)
    THEN TextPanel("[red]No data available[/red]", title, "none")
    ELSE LET numeric_cols == NumericCols(df)
             string_cols == StringCols(df)
             shown_num == ShownNumeric(numeric_cols)
             shown_str == ShownText(string_cols)
         IN  [type |-> "summary", title |-> title, border |-> "green",
              rows |->
                 << Metric(<<"Total Records">>, "count", df.n, 0),
                    Metric(<<"Columns">>, "count", Len(df.cols), 0),
                    Metric(<<"Memory Usage">>, "memory", 0, 0) >>
                 \o (IF Len(numeric_cols) > 0
                     THEN << Metric(<<"[bold]Numeric Columns[/bold]">>, "count",
                                    Len(numeric_cols), 0) >>
                          \o Concat([i \in 1..Len(shown_num) |->
                                       NumericRows(shown_num[i])])
                     ELSE << >>)
                 \o (IF Len(string_cols) > 0
                     THEN << Metric(<<"[bold]Text Columns[/bold]">>, "count",
                                    Len(string_cols), 0) >>
                          \o [i \in 1..Len(shown_str) |-> TextRow(shown_str[i])]
                     ELSE << >>)]

\* iterrows() yields each row as one Series: over all-numeric columns with a
\* float64 one among them every value of the row is a float
RowIsFloat(df) ==
    /\ \A j \in 1..Len(df.cols) : df.cols[j].dtype \in {"int64", "float64"}
    /\ \E j \in 1..Len(df.cols) : df.cols[j].dtype = "float64"

\* the formatting branch taken for one cell
FormatCell(c, col, df) ==
    IF c.k = "null" THEN [fmt |-> "[dim]NULL[/dim]", cell |-> Null]
    ELSE IF c.k = "float" THEN [fmt |-> ".2f", cell |-> c]
    ELSE IF c.k = "int" /\ (col.dtype = "float64" \/ RowIsFloat(df))
    THEN [fmt |-> ".2f", cell |-> c]
    ELSE IF c.k = "int" THEN [fmt |-> "str", cell |-> c]
    ELSE [fmt |-> "str[:50]", cell |-> c]

create_data_table(df, title, max_rows) ==
    IF IsEmpty(df)
    THEN TextPanel("[red]No data available[/red]", title, "none")
    ELSE LET shown == IF max_rows < df.n THEN max_rows ELSE df.n IN
         [type |-> "table", title |-> title, border |-> "cyan",
          shown |-> shown, total |-> df.n,
          columns |-> [j \in 1..Len(df.cols) |-> df.cols[j].name],
          rows |-> [i \in 1..shown |->
                      [j \in 1..Len(df.cols) |->
                         FormatCell(df.cols[j].vals[i], df.cols[j], df)]]]

---------------------------------------------------------------------------
(* create_analytics_dashboard *)

\* a Layout region nothing was put in: rich draws its own blank placeholder
EmptySlot(name) == [type |-> "slot", name |-> name]

\* the top-N panel of a text column: value_counts().head(10) as a bar chart
TopValuesChart(col) ==
    create_bar_chart(Take(ValueCounts(col.vals), TopValues),
                     <<"Top ", col.name, " Values">>, DefaultMaxBars)

MoreDataPanel ==
    TextPanel("[yellow]Add more data for additional charts[/yellow]",
              NoTitle, "none")

\* layout["chart1"] as the branches leave it
Chart1(df) ==
    LET numeric_cols == NumericCols(df)
        cat_cols == StringCols(df)
    IN  IF Len(numeric_cols) > 0
        THEN create_distribution_chart(numeric_cols[1],
                 <<numeric_cols[1].name, " Distribution">>, DefaultBins)
        ELSE IF Len(cat_cols) >= 1 THEN TopValuesChart(cat_cols[1])
        ELSE EmptySlot("chart1")

\* variant: the correlation matrix only from three numeric columns on
Chart2_NeedsThree(df) ==
    LET numeric_cols == NumericCols(df)
        cat_cols == StringCols(df)
    IN  IF Len(numeric_cols) > 0
        THEN IF Len(numeric_cols) > 2
             THEN create_correlation_matrix(df, <<"Correlation Matrix">>)
             ELSE IF Len(cat_cols) > 0 THEN TopValuesChart(cat_cols[1])
             ELSE EmptySlot("chart2")
        ELSE IF Len(cat_cols) >= 2 THEN TopValuesChart(cat_cols[2])
        ELSE IF Len(cat_cols) = 1 THEN MoreDataPanel
        ELSE EmptySlot("chart2")

\* variant: the single text column case sets no second pane
Chart2_NoPlaceholder(df) ==
    LET numeric_cols == NumericCols(df)
        cat_cols == StringCols(df)
    IN  IF Len(numeric_cols) > 0
        THEN IF Len(numeric_cols) > 1
             THEN create_correlation_matrix(df, <<"Correlation Matrix">>)
             ELSE IF Len(cat_cols) > 0 THEN TopValuesChart(cat_cols[1])
             ELSE EmptySlot("chart2")
        ELSE IF Len(cat_cols) >= 2 THEN TopValuesChart(cat_cols[2])
        ELSE EmptySlot("chart2")

\* layout["chart2"] as the branches leave it
Chart2(df) ==
    LET numeric_cols == NumericCols(df)
        cat_cols == StringCols(df)
    IN  IF Len(numeric_cols) > 0
        THEN IF Len(numeric_cols) > 1
             THEN create_correlation_matrix(df, <<"Correlation Matrix">>)
             ELSE IF Len(cat_cols) > 0 THEN TopValuesChart(cat_cols[1])
             ELSE EmptySlot("chart2")
        ELSE IF Len(cat_cols) >= 2 THEN TopValuesChart(cat_cols[2])
        ELSE IF Len(cat_cols) = 1 THEN MoreDataPanel
        ELSE EmptySlot("chart2")

\* the "Generated: ..." text of the header, read off the wall clock
Timestamp(now) == now

create_analytics_dashboard(df, title, now) ==
    [type |-> "layout",
     header |-> [title |-> title, generated |-> Timestamp(now)],
     stats |-> create_summary_stats(df, <<"Dataset Overview">>),
     preview |-> create_data_table(df, <<"Data Preview">>, PreviewRows),
     chart1 |-> Chart1(df),
     chart2 |-> Chart2(df)]

---------------------------------------------------------------------------
(* display_analytics *)

\* variant: an unrecognized analytics_type falls to the summary
ViewBuilder_UnknownAsSummary(analytics_type) ==
    CASE analytics_type = "dashboard" -> "create_analytics_dashboard"
      [] analytics_type = "summary" -> "create_summary_stats"
      [] analytics_type = "table" -> "create_data_table"
      [] analytics_type = "correlation" -> "create_correlation_matrix"
      [] OTHER -> "create_summary_stats"

\* the builder an analytics_type selects
ViewBuilder(analytics_type) ==
    CASE analytics_type = "dashboard" -> "create_analytics_dashboard"
      [] analytics_type = "summary" -> "create_summary_stats"
      [] analytics_type = "table" -> "create_data_table"
      [] analytics_type = "correlation" -> "create_correlation_matrix"
      [] OTHER -> "create_analytics_dashboard"

\* variant: the summary's title carries the time of the call
Build_Stamped(builder, df, title, now) ==
    CASE builder = "create_summary_stats" ->
            create_summary_stats(df, title \o <<ToString(now)>>)
      [] builder = "create_data_table" ->
            create_data_table(df, title, DefaultTableRows)
      [] builder = "create_correlation_matrix" ->
            create_correlation_matrix(df, title)
      [] OTHER -> create_analytics_dashboard(df, title, now)

Build(builder, df, title, now) ==
    CASE builder = "create_summary_stats" -> create_summary_stats(df, title)
      [] builder = "create_data_table" ->
            create_data_table(df, title, DefaultTableRows)
      [] builder = "create_correlation_matrix" ->
            create_correlation_matrix(df, title)
      [] OTHER -> create_analytics_dashboard(df, title, now)

\* variant: the unsupported input raises instead of printing
Unsupported_Raises == [printed |-> << >>, invoked |-> << >>, raised |-> TRUE]

\* what an input that is no list, dict or DataFrame does to the call
Unsupported ==
    [printed |-> << TextPanel("[red]Unsupported data type for analytics[/red]",
                              <<"Error">>, "none") >>,
     invoked |-> << >>,
     raised |-> FALSE]

\* the whole call: what it prints, which builders it invokes, whether it
\* raises.  df is the DataFrame the input converts to (unused for "other").
display_analytics(kind, df, analytics_type, title, now) ==
    IF kind \notin {"list", "dict", "frame"} THEN Unsupported
    ELSE IF IsEmpty(df)
    THEN [printed |-> << TextPanel("[yellow]No data available for analytics[/yellow]",
                                   title, "none") >>,
          invoked |-> << >>,
          raised |-> FALSE]
    ELSE [printed |-> << Build(ViewBuilder(analytics_type), df, title, now) >>,
          invoked |-> << ViewBuilder(analytics_type) >>,
          raised |-> FALSE]

---------------------------------------------------------------------------
(* session_manager.py: DatabaseSession and SessionManager *)

\* None, for current_session_id, and the session_id no session is stored under
None == 0
UnknownId == 0 - 1

\* a str-valued field that holds None
NoStr == "None"
\* JSON values as json.loads returns them; PyNone is Python's None
PyNone == [kind |-> "None", tables |-> << >>]
PyDict(tables) == [kind |-> "dict", tables |-> tables]

\* the fields of the DatabaseSession dataclass
Attributes ==
    {"session_id", "db_uri", "db_type", "connection_code", "schema_info",
     "connected", "analyzed"}

\* DatabaseSession(session_id=session_id, db_uri=db_uri)
DatabaseSession(session_id, db_uri) ==
    [session_id |-> session_id, db_uri |-> db_uri, db_type |-> NoStr,
     connection_code |-> NoStr, schema_info |-> PyNone,
     connected |-> FALSE, analyzed |-> FALSE]

\* SessionManager(): sessions maps the ids 1..Len(sessions) (the uuid4
\* strings, in order of creation) to their sessions
NewManager == [sessions |-> << >>, current_session_id |-> None]

StoredIds(mgr) == 1..Len(mgr.sessions)

\* variant: the first session stays the current one
create_session_KeepsCurrent(mgr, db_uri) ==
    LET session_id == Len(mgr.sessions) + 1 IN
    [sessions |-> Append(mgr.sessions, DatabaseSession(session_id, db_uri)),
     current_session_id |->
        IF mgr.current_session_id = None THEN session_id
        ELSE mgr.current_session_id]

\* create_session: a fresh uuid4 as the key, and the new session current
create_session(mgr, db_uri) ==
    LET session_id == Len(mgr.sessions) + 1 IN
    [sessions |-> Append(mgr.sessions, DatabaseSession(session_id, db_uri)),
     current_session_id |-> session_id]

\* get_session(): the current session, None without one
HasSession(mgr) == mgr.current_session_id \in StoredIds(mgr)
get_session(mgr) == mgr.sessions[mgr.current_session_id]

\* a keyword argument
KW(key, value) == [key |-> key, value |-> value]

\* setattr(session, key, value) for each keyword that names an attribute, in
\* the order given
SetAttrs(session, kwargs) ==
    [f \in Attributes |->
        IF \E i \in 1..Len(kwargs) : kwargs[i].key = f
        THEN kwargs[CHOOSE i \in 1..Len(kwargs) :
                       /\ kwargs[i].key = f
                       /\ \A j \in (i + 1)..Len(kwargs) : kwargs[j].key # f].value
        ELSE session[f]]

\* variant: an id that is not stored gets a session of its own
update_session_Upserts(mgr, session_id, kwargs) ==
    IF session_id \in StoredIds(mgr)
    THEN [mgr EXCEPT !.sessions[session_id] = SetAttrs(@, kwargs)]
    ELSE [mgr EXCEPT !.sessions =
             Append(@, SetAttrs(DatabaseSession(Len(@) + 1, << >>), kwargs))]

\* update_session(session_id, **kwargs)
update_session(mgr, session_id, kwargs) ==
    IF session_id \in StoredIds(mgr)
    THEN [mgr EXCEPT !.sessions[session_id] = SetAttrs(@, kwargs)]
    ELSE mgr

---------------------------------------------------------------------------
(* llm_tools.py: the tools the agents call *)

\* a URI is the sequence of its pieces: the scheme prefix first, the part
\* after the last '/' last
Uris == { <<"sqlite://", "/", "shop.db">>, <<"ftp://", "host/", "x">> }

StartsWith(db_uri, prefixes) == db_uri[1] \in prefixes

DbType(db_uri) ==
    IF StartsWith(db_uri, {"mysql://", "mysql+pymysql://"}) THEN "mysql"
    ELSE IF StartsWith(db_uri, {"postgresql://", "postgres://"})
    THEN "postgresql"
    ELSE IF StartsWith(db_uri, {"mongodb://", "mongodb+srv://"}) THEN "mongodb"
    ELSE IF StartsWith(db_uri, {"redis://"}) THEN "redis"
    ELSE IF StartsWith(db_uri, {"sqlite://"}) THEN "sqlite"
    ELSE "unknown"

\* what a tool or a query hands back (ret, value), what it was called with
\* (session_id, kwargs), whether the querier agent ran and which
\* display_analytics call was made
Reply(op, session_id, ret, value, ran) ==
    [op |-> op, session_id |-> session_id, kwargs |-> << >>, ret |-> ret,
     value |-> value, ran |-> ran, display |-> "none"]
NoReply == Reply("none", None, "", PyNone, FALSE)

create_database_session(mgr, db_uri) ==
    LET created == create_session(mgr, db_uri)
        session_id == created.current_session_id
    IN  [mgr |-> update_session(created, session_id,
                                << KW("db_type", DbType(db_uri)) >>),
         reply |-> Reply("create_database_session", session_id, "created",
                         PyNone, FALSE)]

get_current_session(mgr) ==
    [mgr |-> mgr,
     reply |-> IF HasSession(mgr)
               THEN Reply("get_current_session", get_session(mgr).session_id,
                          "session", get_session(mgr).schema_info, FALSE)
               ELSE Reply("get_current_session", None,
                          "No active session. Please create one first.",
                          PyNone, FALSE)]

Codes == {"import sqlite3"}

save_connection_code(mgr, session_id, code) ==
    [mgr |-> update_session(mgr, session_id,
                            << KW("connection_code", code),
                               KW("connected", TRUE) >>),
     reply |-> Reply("save_connection_code", session_id, "success", PyNone,
                     FALSE)]

\* json.loads(text): the value of a JSON document, JSONDecodeError otherwise
SchemaTexts == {"{\"tables\": [\"t\"]}", "null", "{tables"}
JsonValid(text) == text \in {"{\"tables\": [\"t\"]}", "null"}
JsonLoads(text) ==
    IF text = "{\"tables\": [\"t\"]}" THEN PyDict(<<"t">>) ELSE PyNone

\* the reply of save_schema_info, with the text it was given
SchemaReply(session_id, schema_info, ret) ==
    [Reply("save_schema_info", session_id, ret, PyNone, FALSE)
        EXCEPT !.kwargs = << KW("schema_info", schema_info) >>]

\* variant: the session is marked analyzed whatever the text
save_schema_info_MarksAlways(mgr, session_id, schema_info) ==
    IF JsonValid(schema_info)
    THEN [mgr |-> update_session(mgr, session_id,
                                 << KW("schema_info", JsonLoads(schema_info)),
                                    KW("analyzed", TRUE) >>),
          reply |-> SchemaReply(session_id, schema_info, "success")]
    ELSE [mgr |-> update_session(mgr, session_id, << KW("analyzed", TRUE) >>),
          reply |-> SchemaReply(session_id, schema_info,
                                "Invalid JSON format for schema_info")]

save_schema_info(mgr, session_id, schema_info) ==
    IF JsonValid(schema_info)
    THEN [mgr |-> update_session(mgr, session_id,
                                 << KW("schema_info", JsonLoads(schema_info)),
                                    KW("analyzed", TRUE) >>),
          reply |-> SchemaReply(session_id, schema_info, "success")]
    ELSE [mgr |-> mgr,
          reply |-> SchemaReply(session_id, schema_info,
                                "Invalid JSON format for schema_info")]

---------------------------------------------------------------------------
(* database_agents.py: query_database, analyze_data, connect_database *)

NoConnection == "No active database connection. Please connect first."

\* variant: any connected session will do
HasConnection_AnySession(mgr) ==
    \E i \in StoredIds(mgr) : mgr.sessions[i].connected

\* not (not session or not session.connected)
HasConnection(mgr) == HasSession(mgr) /\ get_session(mgr).connected

\* what the querier agent comes back with: plain text, a JSON list of rows,
\* lines of a table, or an exception out of run()
Answers == {"text", "rows", "tabular", "raise"}

\* query_database(question): the querier runs only with a connection
query_database(mgr, answer) ==
    IF ~HasConnection(mgr)
    THEN Reply("query_database", mgr.current_session_id, NoConnection,
               PyNone, FALSE)
    ELSE Reply("query_database", mgr.current_session_id,
               IF answer = "raise" THEN "raised" ELSE "**QUERY RESULT**",
               PyNone, TRUE)

\* analyze_data(query, analytics_type): the querier's answer goes to
\* display_analytics as rows, as a dict or as a summary table
analyze_data(mgr, answer) ==
    IF ~HasConnection(mgr)
    THEN Reply("analyze_data", mgr.current_session_id, NoConnection,
               PyNone, FALSE)
    ELSE [Reply("analyze_data", mgr.current_session_id,
                IF answer = "raise" THEN "raised"
                ELSE "**Analytics displayed for:**",
                PyNone, TRUE)
            EXCEPT !.display =
                CASE answer = "rows" -> "list"
                  [] answer = "tabular" -> "dict"
                  [] answer = "text" -> "summary"
                  [] OTHER -> "none"]

\* connect_database: the stream sys.stdout is set to meanwhile, and what the
\* call returns
Streams == {"console", "logfile"}
Captured == "StringIO"
Return(msg, db_type, database, tables) ==
    [msg |-> msg, db_type |-> db_type, database |-> database,
     tables |-> tables]
NoReturn == Return("", "", "", "")
NoConn == [pc |-> "idle", db_uri |-> << >>, old_stdout |-> "",
           worker |-> "none", result |-> "", ret |-> NoReturn]

\* finally: sys.stdout = old_stdout
Finally(old_stdout) == old_stdout

\* tables_list: json.loads(session.schema_info) is given the parsed value,
\* not a str, and raises; the bare except leaves "Unknown"
TablesList(schema_info) ==
    CASE schema_info.kind = "None" -> "Unknown"  \* no schema_info: kept
      [] OTHER -> "Unknown"                      \* TypeError, caught

\* lines 171-194, after the worker's result has arrived
ConnectResult(mgr) ==
    IF ~HasSession(mgr)
    THEN Return("Connection failed", "", "", "")
    ELSE LET session == get_session(mgr) IN
         Return("**Connected to database successfully!**", session.db_type,
                session.db_uri[Len(session.db_uri)],
                TablesList(session.schema_info))

---------------------------------------------------------------------------
(* State machine: a caller building inputs and calling the engine *)

NoCall == [kind |-> "none", recs |-> << >>, zero |-> FALSE, other |-> "",
           view |-> "", title |-> << >>, at |-> 0]
NoPrev == [valid |-> FALSE, printed |-> << >>, at |-> 0]
NoChart == [called |-> FALSE, max_bars |-> 0, data |-> << >>,
            panel |-> EmptySlot("")]
NoCell == [glyph |-> "", style |-> "", val |-> NaN]
NoDirect == [fn |-> "none", slice |-> "", col |-> 0, bins |-> 0,
             max_rows |-> 0, title |-> << >>, out |-> EmptySlot("")]

\* two calls with the same logical input: data, view type and title
SameInput(c, d) ==
    /\ c.kind = d.kind /\ c.recs = d.recs /\ c.zero = d.zero
    /\ c.other = d.other /\ c.view = d.view /\ c.title = d.title

\* the DataFrame the input of a call converts to
FrameOfCall(c) ==
    IF c.zero THEN ZeroRows(DataFrameOf(c.recs)) ELSE DataFrameOf(c.recs)

Init ==
    /\ records = << >>
    /\ clock = 0
    /\ call = NoCall
    /\ printed = << >>
    /\ invoked = << >>
    /\ raised = FALSE
    /\ prev = NoPrev
    /\ chart_data = << >>
    /\ chart_out = NoChart
    /\ tier_val = NaN
    /\ tier_cell = NoCell
    /\ direct = NoDirect
    /\ tie_order \in TieOrders
    /\ session_mgr = NewManager
    /\ reply = NoReply
    /\ code_saved = {}
    /\ sys_stdout = "console"
    /\ conn = NoConn

chartVars == <<chart_data, chart_out>>
tierVars == <<tier_val, tier_cell>>
directVars == <<direct>>
sessionVars == <<session_mgr, reply, code_saved, sys_stdout, conn>>
renderVars == <<records, clock, call, printed, invoked, raised, prev>>

\* the caller appends one more record to the list it will pass
AddRecord(r) ==
    /\ call.kind = "none" /\ direct.fn = "none"
    /\ Len(records) < MaxRows
    /\ records' = Append(records, r)
    /\ UNCHANGED <<clock, call, printed, invoked, raised, prev>>
    /\ UNCHANGED <<chartVars, tierVars, directVars, tie_order, sessionVars>>

\* a second passes between a call and the same call made again
Tick ==
    /\ call.kind # "none" /\ ~prev.valid
    /\ clock < MaxClock
    /\ clock' = clock + 1
    /\ UNCHANGED <<records, call, printed, invoked, raised, prev>>
    /\ UNCHANGED <<chartVars, tierVars, directVars, tie_order, sessionVars>>

\* the caller drops the input and the artifacts it holds and starts over
NewInput ==
    /\ call.kind # "none" \/ direct.fn # "none"
    /\ records' = << >>
    /\ call' = NoCall
    /\ printed' = << >>
    /\ invoked' = << >>
    /\ raised' = FALSE
    /\ prev' = NoPrev
    /\ clock' = 0
    /\ direct' = NoDirect
    /\ UNCHANGED <<chartVars, tierVars, tie_order, sessionVars>>

\* variant: the call tidies the caller's list in place (empty mappings are
\* removed from it) before it converts it
Display_TidiesInput(c) ==
    LET res == display_analytics(c.kind, FrameOfCall(c), c.view, c.title, c.at)
    IN  /\ direct.fn = "none"
        /\ call.kind = "none" \/ (SameInput(call, c) /\ ~prev.valid)
        /\ call' = c
        /\ printed' = res.printed
        /\ invoked' = res.invoked
        /\ raised' = res.raised
        /\ prev' = IF SameInput(call, c)
                   THEN [valid |-> TRUE, printed |-> printed, at |-> call.at]
                   ELSE NoPrev
        /\ records' = SelectSeq(records, LAMBDA r : r # << >>)
        /\ UNCHANGED clock
        /\ UNCHANGED <<chartVars, tierVars, directVars, tie_order, sessionVars>>

\* one call of display_analytics with the arguments c: the first on this
\* input, or the same call made again
Display(c) ==
    LET res == display_analytics(c.kind, FrameOfCall(c), c.view, c.title, c.at)
    IN  /\ direct.fn = "none"
        /\ call.kind = "none" \/ (SameInput(call, c) /\ ~prev.valid)
        /\ call' = c
        /\ printed' = res.printed
        /\ invoked' = res.invoked
        /\ raised' = res.raised
        /\ prev' = IF SameInput(call, c)
                   THEN [valid |-> TRUE, printed |-> printed, at |-> call.at]
                   ELSE NoPrev
        /\ UNCHANGED <<records, clock>>
        /\ UNCHANGED <<chartVars, tierVars, directVars, tie_order, sessionVars>>

\* display_analytics(list_of_records, view, title)
DisplayList(view, title) ==
    Display([kind |-> "list", recs |-> records, zero |-> FALSE, other |-> "",
             view |-> view, title |-> title, at |-> clock])

\* display_analytics(mapping, view, title)
DisplayDict(view, title) ==
    /\ Len(records) = 1
    /\ Display([kind |-> "dict", recs |-> records, zero |-> FALSE, other |-> "",
                view |-> view, title |-> title, at |-> clock])

\* display_analytics(DataFrame, view, title); zero: the frame has the columns
\* of the records and no rows
DisplayFrame(zero, view, title) ==
    Display([kind |-> "frame", recs |-> records, zero |-> zero, other |-> "",
             view |-> view, title |-> title, at |-> clock])

\* display_analytics(x, view, title) with x no list, dict or DataFrame
DisplayOther(x, view, title) ==
    /\ records = << >>
    /\ Display([kind |-> "other", recs |-> << >>, zero |-> FALSE, other |-> x,
                view |-> view, title |-> title, at |-> clock])

Next ==
    \/ \E r \in Records : AddRecord(r)
    \/ Tick
    \/ NewInput
    \/ \E v \in Views, t \in Titles : DisplayList(v, t)
    \/ \E v \in Views, t \in Titles : DisplayDict(v, t)
    \/ \E z \in BOOLEAN, v \in Views, t \in Titles : DisplayFrame(z, v, t)
    \/ \E x \in Others, v \in Views, t \in Titles : DisplayOther(x, v, t)

Spec == Init /\ [][Next]_vars

---------------------------------------------------------------------------
(* Direct calls of create_bar_chart *)

ChartValues == (0 - NegRange)..MaxValue

\* data[label] = value
PutEntry(label, value) ==
    /\ ~chart_out.called
    /\ chart_data' = DictPut(chart_data,
                              Entry(LabelOfCell(StrCell(label)), value))
    /\ UNCHANGED chart_out
    /\ UNCHANGED <<renderVars, tierVars, directVars, tie_order, sessionVars>>

\* create_bar_chart(data, title, max_bars)
CallBarChart(max_bars) ==
    /\ chart_out' = [called |-> TRUE, max_bars |-> max_bars, data |-> chart_data,
                     panel |-> create_bar_chart(chart_data, ChartTitle, max_bars)]
    /\ UNCHANGED chart_data
    /\ UNCHANGED <<renderVars, tierVars, directVars, tie_order, sessionVars>>

NextChart ==
    \/ \E l \in ChartLabels, v \in ChartValues : PutEntry(l, v)
    \/ \E m \in 1..MaxBarsArg : CallBarChart(m)

SpecChart == Init /\ [][NextChart]_vars

\* data[label] = value with a float value
PutFloat(label, value, half) ==
    /\ ~chart_out.called
    /\ chart_data' = DictPut(chart_data,
                              FloatEntry(LabelOfCell(StrCell(label)), value, half))
    /\ UNCHANGED chart_out
    /\ UNCHANGED <<renderVars, tierVars, directVars, tie_order, sessionVars>>

\* data[label] = value with a numpy integer (a count of np.histogram)
PutCount(label, value) ==
    /\ ~chart_out.called
    /\ chart_data' = DictPut(chart_data,
                              NpEntry(LabelOfCell(StrCell(label)), value))
    /\ UNCHANGED chart_out
    /\ UNCHANGED <<renderVars, tierVars, directVars, tie_order, sessionVars>>

FloatLabels == {"a", "bb"}

\* a caller charting measurements: ints, floats with and without a fraction,
\* and numpy integers
NextFloat ==
    \/ \E l \in FloatLabels, v \in 0..MaxValue, h \in {0, 1} : PutFloat(l, v, h)
    \/ \E l \in FloatLabels, v \in 1..MaxValue : PutEntry(l, v)
    \/ \E l \in FloatLabels, v \in 1..MaxValue : PutCount(l, v)
    \/ \E m \in 1..MaxBarsArg : CallBarChart(m)

SpecFloat == Init /\ [][NextFloat]_vars

---------------------------------------------------------------------------
(* Direct calls of the view builders on a DataFrame the caller holds *)

\* a record of a wide result set: six numeric and four text columns
Wide ==
    << KV("sales", IntCell(4)), KV("product", StrCell("A")),
       KV("profit", IntCell(1)), KV("region", StrCell("N")),
       KV("cost", IntCell(2)), KV("name", StrCell("x")),
       KV("qty", IntCell(1)), KV("city", StrCell("y")),
       KV("tax", IntCell(0)), KV("age", IntCell(5)) >>

\* the records of the callers that use the builders directly
DirectRecords ==
    { << >>,
      << KV("product", StrCell("A")), KV("sales", IntCell(3)) >>,
      << KV("sales", IntCell(2)), KV("profit", IntCell(4)) >>,
      << KV("product", StrCell("B")) >>,
      << KV("when", TsCell(1)) >>,
      Wide }

\* bins arguments: one bin, a width that is no whole tenth, the default, and
\* more bins than the bar chart shows
DistBins == {1, 3, DefaultBins, DefaultMaxBars + 1}

\* the rows of its DataFrame the caller passes on: all (df), the first
\* (df.head(1)) or none (df.iloc[0:0], a filter nothing passed)
Slices == {"all", "head", "none"}

HeadRows(df, k) ==
    [n |-> IF k < df.n THEN k ELSE df.n,
     cols |-> [j \in 1..Len(df.cols) |->
                 [name |-> df.cols[j].name, dtype |-> df.cols[j].dtype,
                  vals |-> Take(df.cols[j].vals, k)]]]

DirectFrame(slice) ==
    LET df == DataFrameOf(records) IN
    CASE slice = "all" -> df
      [] slice = "head" -> HeadRows(df, 1)
      [] OTHER -> ZeroRows(df)

DirectCall(fn, slice, col, bins, max_rows, title, out) ==
    [fn |-> fn, slice |-> slice, col |-> col, bins |-> bins,
     max_rows |-> max_rows, title |-> title, out |-> out]

CallDirect(d) ==
    /\ call.kind = "none" /\ direct.fn = "none"
    /\ direct' = d
    /\ UNCHANGED <<renderVars, chartVars, tierVars, tie_order, sessionVars>>

\* create_summary_stats(df, title)
CallSummary(slice, title) ==
    CallDirect(DirectCall("create_summary_stats", slice, 0, 0, 0, title,
                          create_summary_stats(DirectFrame(slice), title)))

\* create_correlation_matrix(df, title)
CallCorrelation(slice, title) ==
    CallDirect(DirectCall("create_correlation_matrix", slice, 0, 0, 0, title,
                          create_correlation_matrix(DirectFrame(slice), title)))

\* create_distribution_chart(df[column], title, bins), for any column of df
CallDistribution(slice, bins, title) ==
    LET df == DirectFrame(slice) IN
    \E col \in 1..Len(df.cols) :
        CallDirect(DirectCall("create_distribution_chart", slice, col, bins,
                              0, title,
                              create_distribution_chart(df.cols[col], title,
                                                        bins)))

\* a caller of the summary and the correlation matrix
NextDirect ==
    \/ \E r \in DirectRecords : AddRecord(r)
    \/ NewInput
    \/ \E sl \in Slices, t \in Titles : CallSummary(sl, t)
    \/ \E sl \in Slices, t \in Titles : CallCorrelation(sl, t)

SpecDirect == Init /\ [][NextDirect]_vars

\* the records of the callers that chart one column, prices among them
DistRecords ==
    (DirectRecords \ {Wide})
        \cup { << KV("price", FloatCell(20)) >>,
               << KV("price", FloatCell(22)) >> }

\* a caller of the distribution chart
NextDist ==
    \/ \E r \in DistRecords : AddRecord(r)
    \/ NewInput
    \/ \E sl \in Slices, b \in DistBins, t \in Titles :
          CallDistribution(sl, b, t)

SpecDist == Init /\ [][NextDist]_vars

\* create_data_table(df, title, max_rows)
CallTable(slice, max_rows, title) ==
    CallDirect(DirectCall("create_data_table", slice, 0, 0, max_rows, title,
                          create_data_table(DirectFrame(slice), title,
                                            max_rows)))

\* the records of the callers that tabulate a result set: text, whole
\* numbers, a timestamp, and rows that lack a key of the others
TableRecords ==
    { << >>,
      << KV("product", StrCell("A")), KV("sales", IntCell(3)) >>,
      << KV("sales", IntCell(2)), KV("profit", IntCell(4)) >>,
      << KV("sales", IntCell(5)) >>,
      << KV("when", TsCell(1)) >> }

\* max_rows arguments: fewer than the rows held, the preview's, the default
TableRowArgs == {1, PreviewRows, DefaultTableRows}

\* a caller of the data table
NextTable ==
    \/ \E r \in TableRecords : AddRecord(r)
    \/ NewInput
    \/ \E sl \in Slices, m \in TableRowArgs, t \in Titles :
          CallTable(sl, m, t)

SpecTable == Init /\ [][NextTable]_vars

---------------------------------------------------------------------------
(* The agents' tool calls and the user's queries on the session manager *)

viewVars == <<renderVars, chartVars, tierVars, directVars, tie_order>>

\* the ids an agent passes to a tool: one it was given, or one never issued
IdArgs == StoredIds(session_mgr) \cup {UnknownId}

\* a tool call outside connect_database; r is [mgr, reply]
ToolCall(r, saved) ==
    /\ conn.pc = "idle"
    /\ session_mgr' = r.mgr
    /\ reply' = r.reply
    /\ code_saved' = saved
    /\ UNCHANGED <<sys_stdout, conn, viewVars>>

CreateDatabaseSession(db_uri) ==
    /\ Len(session_mgr.sessions) < MaxSessions
    /\ ToolCall(create_database_session(session_mgr, db_uri), code_saved)

GetCurrentSession == ToolCall(get_current_session(session_mgr), code_saved)

SaveConnectionCode(session_id, code) ==
    ToolCall(save_connection_code(session_mgr, session_id, code),
             code_saved \cup {session_id})

SaveSchemaInfo(session_id, schema_info) ==
    ToolCall(save_schema_info(session_mgr, session_id, schema_info),
             code_saved)

QueryDatabase(answer) ==
    ToolCall([mgr |-> session_mgr,
              reply |-> query_database(session_mgr, answer)], code_saved)

AnalyzeData(answer) ==
    ToolCall([mgr |-> session_mgr,
              reply |-> analyze_data(session_mgr, answer)], code_saved)

NextSession ==
    \/ \E u \in Uris : CreateDatabaseSession(u)
    \/ GetCurrentSession
    \/ \E id \in IdArgs, c \in Codes : SaveConnectionCode(id, c)
    \/ \E id \in IdArgs, t \in SchemaTexts : SaveSchemaInfo(id, t)
    \/ \E a \in Answers : QueryDatabase(a)
    \/ \E a \in Answers : AnalyzeData(a)

SpecSession == Init /\ [][NextSession]_vars

---------------------------------------------------------------------------
(* Direct calls of SessionManager.create_session and update_session *)

\* keyword arguments: one field, no field of the session, a field with a
\* name that is none, two fields
KwargSets ==
    { << KW("connected", TRUE) >>,
      << KW("nickname", "x") >>,
      << KW("db_type", "mysql"), KW("nickname", "x") >>,
      << KW("schema_info", PyDict(<<"t">>)), KW("analyzed", TRUE) >> }

CreateSession(db_uri) ==
    /\ Len(session_mgr.sessions) < MaxSessions
    /\ ToolCall([mgr |-> create_session(session_mgr, db_uri),
                 reply |-> Reply("create_session",
                                 Len(session_mgr.sessions) + 1, "session",
                                 PyNone, FALSE)], code_saved)

UpdateSession(session_id, kwargs) ==
    ToolCall([mgr |-> update_session(session_mgr, session_id, kwargs),
              reply |-> [Reply("update_session", session_id, "None", PyNone,
                               FALSE) EXCEPT !.kwargs = kwargs]],
             code_saved)

NextUpdate ==
    \/ \E u \in Uris : CreateSession(u)
    \/ \E id \in IdArgs, kw \in KwargSets : UpdateSession(id, kw)

SpecUpdate == Init /\ [][NextUpdate]_vars

---------------------------------------------------------------------------
(* connect_database: the calling thread and the worker thread *)

\* the caller has bound sys.stdout to another stream before it connects
Redirect ==
    /\ conn.pc = "idle"
    /\ \E s \in Streams \ {sys_stdout} : sys_stdout' = s
    /\ UNCHANGED <<session_mgr, reply, code_saved, conn, viewVars>>

\* lines 115-161: stdout captured, run_connection submitted, the caller
\* waits in future.result(timeout=45)
ConnectStart(db_uri) ==
    /\ conn.pc = "idle"
    /\ sys_stdout' = Captured
    /\ conn' = [NoConn EXCEPT !.pc = "waiting", !.db_uri = db_uri,
                              !.old_stdout = sys_stdout,
                              !.worker = "orchestrating"]
    /\ UNCHANGED <<session_mgr, reply, code_saved, viewVars>>

\* lines 115-116, 158-159, 165-169: the executor raises (no thread can be
\* started) and the call returns from the except clause
ConnectSubmitFails(db_uri) ==
    /\ conn.pc = "idle"
    /\ sys_stdout' = Finally(sys_stdout)
    /\ conn' = [NoConn EXCEPT !.pc = "returned", !.db_uri = db_uri,
                              !.old_stdout = sys_stdout,
                              !.ret = Return("Connection failed: ", "", "",
                                             "")]
    /\ UNCHANGED <<session_mgr, reply, code_saved, viewVars>>

\* the orchestrator or the connector agent calls a tool; r is [mgr, reply]
WorkerCalls(r, saved) ==
    /\ conn.worker \in {"orchestrating", "connecting"}
    /\ session_mgr' = r.mgr
    /\ code_saved' = saved
    /\ UNCHANGED <<reply, sys_stdout, conn, viewVars>>

WorkerCreates ==
    /\ Len(session_mgr.sessions) < MaxSessions
    /\ WorkerCalls(create_database_session(session_mgr, conn.db_uri),
                   code_saved)

WorkerSavesCode(session_id, code) ==
    WorkerCalls(save_connection_code(session_mgr, session_id, code),
                code_saved \cup {session_id})

WorkerSavesSchema(session_id, schema_info) ==
    WorkerCalls(save_schema_info(session_mgr, session_id, schema_info),
                code_saved)

\* lines 126-130: the orchestrator is through
OrchestratorReturns ==
    /\ conn.worker = "orchestrating"
    /\ conn' = IF HasSession(session_mgr)
               THEN [conn EXCEPT !.worker = "connecting"]
               ELSE [conn EXCEPT !.worker = "done",
                                 !.result = "Failed to create session"]
    /\ UNCHANGED <<session_mgr, reply, code_saved, sys_stdout, viewVars>>

\* lines 151-152: the connector is through
ConnectorReturns ==
    /\ conn.worker = "connecting"
    /\ conn' = [conn EXCEPT !.worker = "done", !.result = "Final answer: "]
    /\ UNCHANGED <<session_mgr, reply, code_saved, sys_stdout, viewVars>>

\* lines 153-154: an agent's run() raises
AgentRaises ==
    /\ conn.worker \in {"orchestrating", "connecting"}
    /\ conn' = [conn EXCEPT !.worker = "done",
                            !.result = "Connection error: "]
    /\ UNCHANGED <<session_mgr, reply, code_saved, sys_stdout, viewVars>>

\* lines 162-163: 45 seconds are over; the return waits for the executor's
\* shutdown on leaving the with block
Timeout ==
    /\ conn.pc = "waiting" /\ conn.worker # "done"
    /\ conn' = [conn EXCEPT !.pc = "timed out"]
    /\ UNCHANGED <<session_mgr, reply, code_saved, sys_stdout, viewVars>>

\* variant: the executor is shut down without waiting for the worker
TimeoutReturns_NoWait ==
    /\ conn.pc = "timed out"
    /\ sys_stdout' = Finally(conn.old_stdout)
    /\ conn' = [conn EXCEPT !.pc = "returned",
                            !.ret = Return("Connection timed out after 45 seconds.",
                                           "", "", "")]
    /\ UNCHANGED <<session_mgr, reply, code_saved, viewVars>>

\* the worker has finished: shutdown(wait=True) returns, the finally clause
\* runs and the timeout message is returned
TimeoutReturns ==
    /\ conn.pc = "timed out" /\ conn.worker = "done"
    /\ sys_stdout' = Finally(conn.old_stdout)
    /\ conn' = [conn EXCEPT !.pc = "returned",
                            !.ret = Return("Connection timed out after 45 seconds.",
                                           "", "", "")]
    /\ UNCHANGED <<session_mgr, reply, code_saved, viewVars>>

\* lines 161, 167-194: the worker's result has arrived in time
ConnectReturns ==
    /\ conn.pc = "waiting" /\ conn.worker = "done"
    /\ sys_stdout' = Finally(conn.old_stdout)
    /\ conn' = [conn EXCEPT !.pc = "returned",
                            !.ret = ConnectResult(session_mgr)]
    /\ UNCHANGED <<session_mgr, reply, code_saved, viewVars>>

\* the caller has taken the return value
ConnectDone ==
    /\ conn.pc = "returned"
    /\ conn' = NoConn
    /\ UNCHANGED <<session_mgr, reply, code_saved, sys_stdout, viewVars>>

NextConnect ==
    \/ Redirect
    \/ \E u \in Uris : ConnectStart(u)
    \/ \E u \in Uris : ConnectSubmitFails(u)
    \/ WorkerCreates
    \/ \E id \in IdArgs, c \in Codes : WorkerSavesCode(id, c)
    \/ \E id \in IdArgs, t \in SchemaTexts : WorkerSavesSchema(id, t)
    \/ OrchestratorReturns
    \/ ConnectorReturns
    \/ AgentRaises
    \/ Timeout
    \/ TimeoutReturns
    \/ ConnectReturns
    \/ ConnectDone

SpecConnect == Init /\ [][NextConnect]_vars

---------------------------------------------------------------------------
(* The cell renderer of create_correlation_matrix on a grid of coefficients *)

CoefGrid == {Hundredths(c) : c \in (0 - 100)..100} \cup {NaN}

RenderCell(val) ==
    /\ tier_val' = val
    /\ tier_cell' = CorrCell(val)
    /\ UNCHANGED <<renderVars, chartVars, directVars, tie_order, sessionVars>>

NextTier == \E val \in CoefGrid : RenderCell(val)

SpecTier == Init /\ [][NextTier]_vars

---------------------------------------------------------------------------
(* Properties of display_analytics (checked under Spec) *)

\* the DataFrame the last call worked on
LastFrame == FrameOfCall(call)

Supported == call.kind \in {"list", "dict", "frame"}

\* the input of the last call holds no data: an empty list, only empty
\* mappings, or a DataFrame without rows or without columns
InputIsEmpty ==
    \/ call.zero
    \/ \A i \in 1..Len(call.recs) : call.recs[i] = << >>

\* the last call got past the conversion and the emptiness check
Dispatched == Supported /\ ~IsEmpty(LastFrame)

NoDataPlaceholder ==
    TextPanel("[yellow]No data available for analytics[/yellow]", call.title,
              "none")

ErrorPanel ==
    TextPanel("[red]Unsupported data type for analytics[/red]", <<"Error">>,
              "none")

\* C1: the view is selected by view_type: "dashboard" prints the composed
\* layout, "summary" the statistics panel only, "table" the row preview only,
\* "correlation" the matrix (or its own placeholder) only, and any other
\* view_type prints exactly what "dashboard" prints for the same input.
C1_ViewDispatch ==
    Dispatched =>
        /\ Len(printed) = 1
        /\ Len(invoked) = 1
        /\ call.view = "dashboard" =>
              /\ invoked[1] = "create_analytics_dashboard"
              /\ printed[1].type = "layout"
        /\ call.view = "summary" =>
              /\ invoked[1] = "create_summary_stats"
              /\ printed[1].type = "summary"
              /\ printed[1].title = call.title
        /\ call.view = "table" =>
              /\ invoked[1] = "create_data_table"
              /\ printed[1].type = "table"
              /\ printed[1].title = call.title
        /\ call.view = "correlation" =>
              /\ invoked[1] = "create_correlation_matrix"
              /\ printed[1].type \in {"matrix", "text"}
              /\ printed[1].title = call.title
        /\ call.view \notin {"dashboard", "summary", "table", "correlation"} =>
              /\ invoked[1] = "create_analytics_dashboard"
              /\ printed = display_analytics(call.kind, LastFrame, "dashboard",
                                             call.title, call.at).printed

\* an unrecognized view_type on a dataset with rows printed a layout
C1_Witness ==
    /\ Dispatched
    /\ call.view = "pie"
    /\ printed[1].type = "layout"
    /\ printed[1].header.title = call.title

\* C2: an input that converts to an empty dataset (empty list, list of empty
\* mappings, empty mapping, DataFrame without rows) prints exactly one
\* placeholder panel for every view_type, invokes no view builder and does
\* not raise.
C2_EmptyPlaceholder ==
    (Supported /\ InputIsEmpty) =>
        /\ printed = << NoDataPlaceholder >>
        /\ invoked = << >>
        /\ ~raised

\* the empty mapping, asked for the correlation view, printed the placeholder
C2_Witness ==
    /\ call.kind = "dict"
    /\ call.recs = << << >> >>
    /\ call.view = "correlation"
    /\ printed = << NoDataPlaceholder >>

\* C3 as stated: an input that is no list, mapping or DataFrame makes the call
\* fail, and the failure reaches the caller instead of becoming an artifact.
C3_UnsupportedPropagates ==
    call.kind = "other" => (raised /\ printed = << >>)

\* C3 as amended: an unsupported input is absorbed like every other condition:
\* the call prints one "Error" panel, invokes no view builder and returns; no
\* call raises; an empty dataset and a correlation view over fewer than two
\* numeric columns each end in a placeholder panel.
C3_UnsupportedAbsorbed ==
    /\ call.kind = "other" =>
          /\ printed = << ErrorPanel >>
          /\ invoked = << >>
          /\ ~raised
    /\ ~raised
    /\ (Supported /\ InputIsEmpty) => printed = << NoDataPlaceholder >>
    /\ (Dispatched /\ call.view = "correlation"
           /\ Len(NumericCols(LastFrame)) < 2) =>
          /\ printed[1].type = "text"
          /\ printed[1].text =
                "[yellow]Not enough numeric columns for correlation[/yellow]"

\* an unsupported input was passed and the call returned with the Error panel
C3_Witness ==
    /\ call.kind = "other"
    /\ call.other = "None"
    /\ printed = << ErrorPanel >>
    /\ ~raised

\* artifacts with the header's generation time blanked
StripGenerated(arts) ==
    [i \in 1..Len(arts) |->
        IF arts[i].type = "layout"
        THEN [arts[i] EXCEPT !.header = [@ EXCEPT !.generated = 0]]
        ELSE arts[i]]

\* the last call built the dashboard
BuiltDashboard == Len(printed) = 1 /\ printed[1].type = "layout"

\* C4 as stated: the same call made twice prints identical artifacts, for
\* every view_type, the dashboard included.
C4_RepeatIdentical == prev.valid => prev.printed = printed

\* C4 as amended: the same call made twice prints artifacts that are identical
\* except for the generation time in the dashboard header; they are fully
\* identical for the summary, table and correlation views and the
\* placeholders, and for the dashboard when both calls read the same second.
C4_RepeatIdenticalButTime ==
    prev.valid =>
        /\ StripGenerated(prev.printed) = StripGenerated(printed)
        /\ (~BuiltDashboard \/ prev.at = call.at) => prev.printed = printed

\* the dashboard printed twice, a second apart, differs in its header only
C4_Witness ==
    /\ prev.valid
    /\ BuiltDashboard
    /\ prev.at # call.at
    /\ prev.printed # printed
    /\ StripGenerated(prev.printed) = StripGenerated(printed)

---------------------------------------------------------------------------
(* Properties of the conversion to a DataFrame (checked under Spec) *)

\* the table view of the rows of the input, none of them sliced away
TableOfInput == Dispatched /\ call.view = "table" /\ ~call.zero
TableOut == printed[1]

\* the keys of all records of the input in the order they are met
KeyStream == Concat([i \in 1..Len(call.recs) |-> RecordKeys(call.recs[i])])
FirstMet(key) == MinOf({p \in 1..Len(KeyStream) : KeyStream[p] = key})

HasKey(rec, key) == \E p \in 1..Len(rec) : rec[p].key = key
ValueAt(rec, key) == rec[CHOOSE p \in 1..Len(rec) : rec[p].key = key].val

\* C16: a sequence of records becomes one row per record in input order; the
\* columns are the union of the records' keys in first-seen order; every row
\* has exactly the declared columns, with null where its record lacks the
\* key; a single mapping is one such row, and a tabular input is shown with
\* the rows and columns it has.
C16_RowsAndColumns ==
    TableOfInput =>
        /\ TableOut.type = "table"
        /\ TableOut.total = Len(call.recs)
        /\ Len(TableOut.rows) = Len(call.recs)
        /\ {TableOut.columns[j] : j \in 1..Len(TableOut.columns)} =
              {KeyStream[p] : p \in 1..Len(KeyStream)}
        /\ \A i, j \in 1..Len(TableOut.columns) :
              i < j => FirstMet(TableOut.columns[i]) < FirstMet(TableOut.columns[j])
        /\ \A i \in 1..Len(TableOut.rows) :
              /\ Len(TableOut.rows[i]) = Len(TableOut.columns)
              /\ \A j \in 1..Len(TableOut.columns) :
                    TableOut.rows[i][j].cell =
                       (IF HasKey(call.recs[i], TableOut.columns[j])
                        THEN ValueAt(call.recs[i], TableOut.columns[j])
                        ELSE Null)

\* two records that share one key of two: three columns, and each row has a
\* null where its record has no such key
C16_Witness ==
    /\ TableOfInput
    /\ call.kind = "list"
    /\ TableOut.columns = <<"product", "sales", "region">>
    /\ Len(TableOut.rows) = 2
    /\ TableOut.rows[1][3].cell = Null
    /\ TableOut.rows[2][2].cell = Null
    /\ TableOut.rows[2][1].cell = StrCell("A")

\* a step in which display_analytics was called and returned
CallReturns ==
    /\ call'.kind # "none"
    /\ <<call, printed, prev>>' # <<call, printed, prev>>

\* C17: no view touches the dataset: when a call returns (any view_type, so
\* any of the builders the views are made of), the caller's dataset is what
\* it was when it was passed, and what the call printed depends on its own
\* arguments and the clock only, not on anything an earlier call left.
C17_NoMutation ==
    [][CallReturns =>
          /\ records' = records
          /\ call'.kind # "other" => call'.recs = records'
          /\ printed' = display_analytics(call'.kind, FrameOfCall(call'),
                                           call'.view, call'.title,
                                           call'.at).printed]_vars

\* a list with an empty mapping in it was rendered twice as a dashboard and
\* is still the list it was
C17_Witness ==
    /\ prev.valid
    /\ call.kind = "list"
    /\ BuiltDashboard
    /\ Len(records) = 2
    /\ records[1] = << >>
    /\ records = call.recs

---------------------------------------------------------------------------
(* Properties of the dashboard's chart panes (checked under Spec) *)

Dashboard == printed[1]
NumericOfLast == NumericCols(LastFrame)
TextOfLast == StringCols(LastFrame)

\* the panel with the top value counts of a text column, read off its values
IsTopValuesOf(panel, col) ==
    /\ panel.type = "chart"
    /\ panel.title = <<"Top ", col.name, " Values">>
    /\ Len(panel.lines) <= TopValues
    /\ \A i \in 1..Len(panel.lines) :
          /\ panel.lines[i].label.kind = "str"
          /\ panel.lines[i].value =
                Cardinality({r \in 1..Len(col.vals) :
                               /\ col.vals[r].k = "str"
                               /\ col.vals[r].s = panel.lines[i].label.s})
    /\ \A r \in 1..Len(col.vals) :
          col.vals[r].k = "str" =>
             \E i \in 1..Len(panel.lines) :
                panel.lines[i].label.s = col.vals[r].s

IsMoreDataPlaceholder(panel) ==
    /\ panel.type = "text"
    /\ panel.text = "[yellow]Add more data for additional charts[/yellow]"

\* C7: with two or more numeric columns the first chart pane is the
\* distribution of the first numeric column in declaration order and the
\* second is the correlation matrix over all numeric columns, whatever the
\* number of text columns.
C7_TwoNumericPanes ==
    (BuiltDashboard /\ Len(NumericOfLast) >= 2) =>
        /\ Dashboard.chart1 =
              create_distribution_chart(NumericOfLast[1],
                  <<NumericOfLast[1].name, " Distribution">>, DefaultBins)
        /\ Dashboard.chart1.type = "chart"
        /\ Dashboard.chart1.title[1] = NumericOfLast[1].name
        /\ \A i \in 1..Len(Dashboard.chart1.lines) :
              Dashboard.chart1.lines[i].label.kind = "bin"
        /\ Dashboard.chart2.type = "matrix"
        /\ Dashboard.chart2.columns =
              [j \in 1..Len(NumericOfLast) |-> NumericOfLast[j].name]
        /\ Len(Dashboard.chart2.rows) = Len(NumericOfLast)

\* exactly two numeric columns after a leading text column: the matrix is
\* there and the distribution is that of the second column
C7_Witness ==
    /\ BuiltDashboard
    /\ Len(NumericOfLast) = 2
    /\ Len(TextOfLast) >= 1
    /\ LastFrame.cols[1].dtype = "object"
    /\ Dashboard.chart1.title[1] = "sales"
    /\ Dashboard.chart2.type = "matrix"
    /\ Dashboard.chart2.columns = <<"sales", "profit">>

\* C8 as stated: with exactly one numeric column the second chart pane is the
\* top-10 value counts of the first text column when there is a text column,
\* and the informational placeholder when there is none.
C8_OneNumericPane2 ==
    (BuiltDashboard /\ Len(NumericOfLast) = 1) =>
        /\ Len(TextOfLast) >= 1 => IsTopValuesOf(Dashboard.chart2, TextOfLast[1])
        /\ Len(TextOfLast) = 0 => IsMoreDataPlaceholder(Dashboard.chart2)

\* C9: without a numeric column, two or more text columns give the top-10
\* value counts of the first and of the second text column; one text column
\* gives its top-10 value counts and the informational placeholder; no text
\* column leaves both chart panes as the layout's empty regions.
C9_NoNumericPanes ==
    (BuiltDashboard /\ Len(NumericOfLast) = 0) =>
        /\ Len(TextOfLast) >= 2 =>
              /\ IsTopValuesOf(Dashboard.chart1, TextOfLast[1])
              /\ IsTopValuesOf(Dashboard.chart2, TextOfLast[2])
        /\ Len(TextOfLast) = 1 =>
              /\ IsTopValuesOf(Dashboard.chart1, TextOfLast[1])
              /\ IsMoreDataPlaceholder(Dashboard.chart2)
        /\ Len(TextOfLast) = 0 =>
              /\ Dashboard.chart1 = EmptySlot("chart1")
              /\ Dashboard.chart2 = EmptySlot("chart2")

\* one text column and nothing numeric: its value counts and the placeholder
C9_Witness ==
    /\ BuiltDashboard
    /\ Len(NumericOfLast) = 0
    /\ Len(TextOfLast) = 1
    /\ LastFrame.n = 2
    /\ IsTopValuesOf(Dashboard.chart1, TextOfLast[1])
    /\ IsMoreDataPlaceholder(Dashboard.chart2)

\* how many times the suffix stands in a title
SuffixCount(title) ==
    Cardinality({i \in 1..Len(title) : title[i] = " Distribution"})

\* C19 as stated: the distribution engine does not append the suffix
\* "Distribution" to the title it is given: the title of the dashboard's
\* distribution pane is the title the dashboard passed, "<column>
\* Distribution", with the suffix in it exactly once.
C19_SuffixOnce ==
    (BuiltDashboard /\ Len(NumericOfLast) >= 1) =>
        /\ Dashboard.chart1.title = <<NumericOfLast[1].name, " Distribution">>
        /\ SuffixCount(Dashboard.chart1.title) = 1

---------------------------------------------------------------------------
(* Properties of create_bar_chart (checked under SpecChart) *)

ChartIn == chart_out.data
ChartLines == chart_out.panel.lines
Charted == chart_out.called /\ ChartIn # << >>

\* position in the input dict of the entry a line shows
InputIndex(line) == CHOOSE i \in 1..Len(ChartIn) : ChartIn[i].label = line.label

ShownLabels == {ChartLines[i].label : i \in 1..Len(ChartLines)}

\* C5: for a non-empty input and max_bars >= 1 the chart has at most max_bars
\* lines, every fill bar is at most 40 long, the lines are in non-increasing
\* order of value with equal values in their input order, each line is an
\* entry of the input, and the entries shown are the max_bars largest.
C5_SortedTruncated ==
    Charted =>
        /\ chart_out.panel.type = "chart"
        /\ Len(ChartLines) <= chart_out.max_bars
        /\ Len(ChartLines) >= 1
        /\ \A i \in 1..Len(ChartLines) :
              /\ ChartLines[i].bar_len <= BarColumns
              /\ \E k \in 1..Len(ChartIn) :
                    /\ ChartIn[k].label = ChartLines[i].label
                    /\ ChartIn[k].value = ChartLines[i].value
        /\ \A i, j \in 1..Len(ChartLines) :
              i < j =>
                 /\ ChartLines[i].label # ChartLines[j].label
                 /\ ChartLines[i].value >= ChartLines[j].value
                 /\ ChartLines[i].value = ChartLines[j].value =>
                       InputIndex(ChartLines[i]) < InputIndex(ChartLines[j])
        /\ \A k \in 1..Len(ChartIn) :
              ChartIn[k].label \notin ShownLabels =>
                 /\ Len(ChartLines) = chart_out.max_bars
                 /\ \A i \in 1..Len(ChartLines) :
                       ChartLines[i].value >= ChartIn[k].value

\* three entries, the last two tied, cut to two bars: the first of the tied
\* pair is shown and the second is dropped
C5_Witness ==
    /\ Charted
    /\ Len(ChartIn) = 3
    /\ chart_out.max_bars = 2
    /\ ChartIn[1].value > ChartIn[2].value
    /\ ChartIn[2].value = ChartIn[3].value
    /\ Len(ChartLines) = 2
    /\ ChartLines[2].label = ChartIn[2].label

\* max_value of the chart: the largest value shown
ShownMax == MaxOf({ChartLines[i].value : i \in 1..Len(ChartLines)})

\* floor(value / max_value * 40)
FloorWidth(value, max_value) == (value * BarColumns) \div max_value

\* the part of C6 that does not depend on how a fraction is cut: the
\* percentage is value / max_value * 100, an entry of the largest value shows
\* 100.0 and a full bar, and with max_value <= 0 every width and percentage
\* is 0
C6_Rest ==
    /\ ShownMax > 0 =>
          \A i \in 1..Len(ChartLines) :
             /\ ChartLines[i].pct_num * ShownMax =
                   ChartLines[i].value * 100 * ChartLines[i].pct_den
             /\ ChartLines[i].value = ShownMax =>
                   /\ ChartLines[i].pct_tenths = 1000
                   /\ ChartLines[i].bar_width = BarColumns
                   /\ ChartLines[i].bar_len = BarColumns
    /\ ShownMax <= 0 =>
          \A i \in 1..Len(ChartLines) :
             /\ ChartLines[i].bar_width = 0
             /\ ChartLines[i].bar_len = 0
             /\ ChartLines[i].pct_num = 0
             /\ ChartLines[i].pct_tenths = 0

\* C6 as stated: bar_width = floor(value / max_value * 40) and percentage =
\* value / max_value * 100 when max_value > 0, so the largest entry shows
\* 100.0 and a full bar; with max_value <= 0 every width and percentage is 0.
C6_FloorWidth ==
    Charted =>
        /\ C6_Rest
        /\ ShownMax > 0 =>
              \A i \in 1..Len(ChartLines) :
                 ChartLines[i].bar_width =
                    FloorWidth(ChartLines[i].value, ShownMax)

\* C6 as amended: bar_width is value / max_value * 40 with its fraction
\* dropped (rounded toward zero), which is the floor for value >= 0 and the
\* ceiling for a negative value; the bar drawn has max(bar_width, 0) fill
\* characters; the rest is as stated.
C6_TruncatedWidth ==
    Charted =>
        /\ C6_Rest
        /\ ShownMax > 0 =>
              \A i \in 1..Len(ChartLines) :
                 /\ ChartLines[i].value >= 0 =>
                       ChartLines[i].bar_width =
                          FloorWidth(ChartLines[i].value, ShownMax)
                 /\ ChartLines[i].value < 0 =>
                       ChartLines[i].bar_width =
                          0 - FloorWidth(0 - ChartLines[i].value, ShownMax)
                 /\ ChartLines[i].bar_len =
                       (IF ChartLines[i].bar_width > 0
                        THEN ChartLines[i].bar_width ELSE 0)

\* values 3, 1 and -1: widths 40, 13 and -13, the last one drawn empty
C6_Witness ==
    /\ Charted
    /\ Len(ChartLines) = 3
    /\ ChartLines[1].value = 3 /\ ChartLines[1].bar_width = 40
    /\ ChartLines[1].pct_tenths = 1000
    /\ ChartLines[2].value = 1 /\ ChartLines[2].bar_width = 13
    /\ ChartLines[2].pct_tenths = 333
    /\ ChartLines[3].value = 0 - 1 /\ ChartLines[3].bar_width = 0 - 13
    /\ ChartLines[3].bar_len = 0

---------------------------------------------------------------------------
(* Properties of the value column of the bar chart (checked under SpecFloat) *)

\* C20 as stated: in each chart line the value is right-aligned to width 8,
\* with integer formatting when the value is integral and otherwise as given:
\* a value with a fraction, such as 2.5, keeps it and is not rounded.
C20_FractionKept ==
    Charted =>
        \A i \in 1..Len(ChartLines) :
           /\ ChartLines[i].value_str.width = 8
           /\ ChartLines[i].half = 0 =>
                 ChartLines[i].value_str.n = ChartLines[i].value
           /\ ChartLines[i].half = 1 => ChartLines[i].value_str.fmt = ">8"

\* C20 as amended: the value is right-aligned to width 8; an int or a float
\* is rendered with zero decimals, so a value with a fraction is rounded to
\* the nearest integer, a half to the even one (2.5 shows 2, 3.5 shows 4); a
\* value of any other type is rendered as given.
C20_ZeroDecimals ==
    Charted =>
        \A i \in 1..Len(ChartLines) :
           /\ ChartLines[i].value_str.width = 8
           /\ ChartLines[i].vtype \in {"int", "float"} =>
                 /\ ChartLines[i].value_str.fmt = ">8.0f"
                 /\ ChartLines[i].half = 0 =>
                       ChartLines[i].value_str.n = ChartLines[i].value
                 /\ ChartLines[i].half = 1 =>
                       ChartLines[i].value_str.n =
                          (IF ChartLines[i].value % 2 = 0
                           THEN ChartLines[i].value
                           ELSE ChartLines[i].value + 1)
           /\ ChartLines[i].vtype \notin {"int", "float"} =>
                 /\ ChartLines[i].value_str.fmt = ">8"
                 /\ ChartLines[i].value_str.n = ChartLines[i].value

\* the floats 2.5 and 1.5 both show 2; the bar of 1.5 is 24 of 40 long
C20_Witness ==
    /\ Charted
    /\ Len(ChartLines) = 2
    /\ ChartLines[1].vtype = "float" /\ ChartLines[1].value = 2
    /\ ChartLines[1].half = 1 /\ ChartLines[1].value_str.n = 2
    /\ ChartLines[2].vtype = "float" /\ ChartLines[2].value = 1
    /\ ChartLines[2].half = 1 /\ ChartLines[2].value_str.n = 2
    /\ ChartLines[2].bar_width = 24

---------------------------------------------------------------------------
(* Properties of the correlation cell tiers (checked under SpecTier) *)

Rendered == tier_cell # NoCell

\* C10: the tier is a three-way classification of abs(correlation) with
\* strict bounds: above 0.7 strong, else above 0.3 moderate, else weak; 0.75
\* is strong, 0.70 moderate, 0.30 and 0.20 weak, and c and -c share a tier.
C10_StrictTiers ==
    (Rendered /\ ~tier_val.nan) =>
        /\ \A c \in (0 - 100)..100 :
              tier_val = Hundredths(c) =>
                 tier_cell.style =
                    (IF Abs(c) > 70 THEN "bold red"
                     ELSE IF Abs(c) > 30 THEN "yellow" ELSE "dim")
        /\ tier_val = Hundredths(75) => tier_cell.style = "bold red"
        /\ tier_val = Hundredths(70) => tier_cell.style = "yellow"
        /\ tier_val = Hundredths(30) => tier_cell.style = "dim"
        /\ tier_val = Hundredths(20) => tier_cell.style = "dim"
        /\ tier_cell.style =
              CorrCell(Coef(0 - tier_val.num, tier_val.den)).style
        /\ tier_cell.glyph = ".2f"

\* the coefficient -0.70 was rendered in the moderate tier
C10_Witness ==
    /\ Rendered
    /\ tier_val = Hundredths(0 - 70)
    /\ tier_cell.style = "yellow"

---------------------------------------------------------------------------
(* Properties of create_correlation_matrix (checked under SpecDirect) *)

\* the DataFrame the last direct call was given
DirectIn == DirectFrame(direct.slice)

CorrCalled == direct.fn = "create_correlation_matrix"
Matrix == direct.out
NumericIn == NumericCols(DirectIn)

\* the column holds two different numbers: its variance is not zero
Varies(col) ==
    \E i, j \in 1..Len(col.vals) :
        /\ col.vals[i].k = "int" /\ col.vals[j].k = "int"
        /\ col.vals[i].n # col.vals[j].n

\* the rows where both columns hold a number
Joint(x, y) ==
    {i \in 1..Len(x.vals) : x.vals[i].k = "int" /\ y.vals[i].k = "int"}

ConstantOn(col, rows) == \A i, j \in rows : col.vals[i].n = col.vals[j].n

\* C11: the correlation matrix is square over the numeric columns in
\* declaration order and symmetric, missing cells included; the diagonal
\* entry of a column with non-zero variance is 1.0; an undefined entry (one
\* of the two columns is constant over the rows they share) is rendered as
\* the glyph "-" and never as a number.
C11_SymmetricMatrix ==
    (CorrCalled /\ Matrix.type = "matrix") =>
        /\ Matrix.columns = [j \in 1..Len(NumericIn) |-> NumericIn[j].name]
        /\ Len(Matrix.rows) = Len(NumericIn)
        /\ \A i \in 1..Len(NumericIn) :
              /\ Matrix.rows[i].head = NumericIn[i].name
              /\ Len(Matrix.rows[i].cells) = Len(NumericIn)
              /\ Varies(NumericIn[i]) =>
                    /\ Matrix.rows[i].cells[i].glyph = ".2f"
                    /\ Matrix.rows[i].cells[i].val.num > 0
                    /\ Matrix.rows[i].cells[i].val.num =
                          Matrix.rows[i].cells[i].val.den
        /\ \A i, j \in 1..Len(NumericIn) :
              /\ Matrix.rows[i].cells[j] = Matrix.rows[j].cells[i]
              /\ Matrix.rows[i].cells[j].glyph \in {"-", ".2f"}
              /\ Matrix.rows[i].cells[j].val.nan <=>
                    Matrix.rows[i].cells[j].glyph = "-"
              /\ (\/ ConstantOn(NumericIn[i], Joint(NumericIn[i], NumericIn[j]))
                  \/ ConstantOn(NumericIn[j], Joint(NumericIn[i], NumericIn[j])))
                 => Matrix.rows[i].cells[j].glyph = "-"

\* six numeric columns among text ones: sales and profit fall together
\* (-1.00 in both places), sales with itself is 1.00, and cost, seen in one
\* row only, has the glyph on its diagonal
C11_Witness ==
    /\ CorrCalled /\ Matrix.type = "matrix"
    /\ Len(DirectIn.cols) > Len(NumericIn)
    /\ Matrix.columns = <<"sales", "profit", "cost", "qty", "tax", "age">>
    /\ Matrix.rows[1].cells[1].glyph = ".2f"
    /\ Matrix.rows[1].cells[1].val.num = Matrix.rows[1].cells[1].val.den
    /\ Matrix.rows[1].cells[2].glyph = ".2f"
    /\ Matrix.rows[1].cells[2].val.num < 0
    /\ Matrix.rows[2].cells[1].val.num < 0
    /\ Matrix.rows[3].cells[3].glyph = "-"

\* the explanatory placeholder of the correlation view
IsNotEnoughNumeric(panel) ==
    /\ panel.type = "text"
    /\ panel.text = "[yellow]Not enough numeric columns for correlation[/yellow]"
    /\ panel.text # "[yellow]No data available for analytics[/yellow]"
    /\ panel.text # "[red]No data available[/red]"

---------------------------------------------------------------------------
(* Properties of create_summary_stats (checked under SpecDirect) *)

SummaryCalled == direct.fn = "create_summary_stats"
Summary == direct.out
TextIn == StringCols(DirectIn)

\* the rows of the summary table of one kind, in table order
RowsOfKind(kind) == SelectSeq(Summary.rows, LAMBDA r : r.kind = kind)

\* the first k of the numeric columns, those among them that hold a value
FirstNumeric(k) ==
    SelectSeq(Take(NumericIn, k), LAMBDA c : NonNull(c.vals) # << >>)

NumbersOf(col) == {col.vals[i].n : i \in {r \in 1..Len(col.vals) :
                                            col.vals[r].k = "int"}}

HasRow(name) == \E i \in 1..Len(Summary.rows) : Summary.rows[i].metric = name

\* C15: on a non-empty dataset the summary reports the row count and the
\* column count, a mean row and a min-max row for at most the first 5 numeric
\* columns and a unique-count row for at most the first 3 text columns, both
\* in declaration order, and the numeric (text) subsection header exactly when
\* a numeric (text) column exists; on an empty dataset it returns a
\* placeholder panel with no table.
C15_SummaryRows ==
    SummaryCalled =>
        /\ (DirectIn.n = 0 \/ DirectIn.cols = << >>) =>
              /\ Summary.type = "text"
              /\ Summary.text = "[red]No data available[/red]"
        /\ (DirectIn.n > 0 /\ DirectIn.cols # << >>) =>
              /\ Summary.type = "summary"
              /\ Summary.rows[1] = Metric(<<"Total Records">>, "count",
                                          DirectIn.n, 0)
              /\ Summary.rows[2] = Metric(<<"Columns">>, "count",
                                          Len(DirectIn.cols), 0)
              /\ HasRow(<<"[bold]Numeric Columns[/bold]">>) <=>
                    Len(NumericIn) >= 1
              /\ HasRow(<<"[bold]Text Columns[/bold]">>) <=> Len(TextIn) >= 1
              /\ Len(RowsOfKind("mean")) <= 5
              /\ Len(RowsOfKind("mean")) = Len(FirstNumeric(5))
              /\ Len(RowsOfKind("range")) = Len(FirstNumeric(5))
              /\ \A i \in 1..Len(FirstNumeric(5)) :
                    LET col == FirstNumeric(5)[i]
                        avg == RowsOfKind("mean")[i]
                        rng == RowsOfKind("range")[i]
                    IN  /\ avg.metric = <<"  ", col.name, " (avg)">>
                        /\ avg.a = Sum(IntsOf(NonNull(col.vals)))
                        /\ avg.b = Len(NonNull(col.vals))
                        /\ rng.metric = <<"  ", col.name, " (min-max)">>
                        /\ rng.a \in NumbersOf(col)
                        /\ rng.b \in NumbersOf(col)
                        /\ \A x \in NumbersOf(col) : rng.a <= x /\ x <= rng.b
              /\ LET uniq == SelectSeq(Summary.rows,
                                       LAMBDA r : r.metric[Len(r.metric)] = " (unique)")
                 IN  /\ Len(uniq) = (IF Len(TextIn) < 3 THEN Len(TextIn) ELSE 3)
                     /\ \A i \in 1..Len(uniq) :
                           /\ uniq[i].metric = <<"  ", TextIn[i].name, " (unique)">>
                           /\ uniq[i].a =
                                 Cardinality({TextIn[i].vals[r] :
                                                r \in {q \in 1..Len(TextIn[i].vals) :
                                                         TextIn[i].vals[q].k # "null"}})

\* six numeric and four text columns: ten numeric rows for the first five,
\* three unique-count rows for the first three, nothing for "age" and "city"
C15_Witness ==
    /\ SummaryCalled
    /\ Summary.type = "summary"
    /\ Len(NumericIn) = 6 /\ Len(TextIn) = 4
    /\ DirectIn.n = 2
    /\ Len(Summary.rows) = 18
    /\ HasRow(<<"  ", "tax", " (avg)">>)
    /\ ~HasRow(<<"  ", "age", " (avg)">>)
    /\ HasRow(<<"  ", "name", " (unique)">>)
    /\ ~HasRow(<<"  ", "city", " (unique)">>)

---------------------------------------------------------------------------
(* Properties of create_distribution_chart (checked under SpecDist) *)

DistCalled == direct.fn = "create_distribution_chart"
DistOut == direct.out

\* the series the last direct call was given, and its non-null values
SeriesIn == DirectIn.cols[direct.col]
CleanIn == NonNull(SeriesIn.vals)

\* the call took the numeric branch and np.histogram returned
Binned ==
    /\ DistCalled
    /\ SeriesIn.dtype \in {"int64", "float64"}
    /\ CleanIn # << >>
    /\ \A i \in 1..Len(CleanIn) : CleanIn[i].k \in {"int", "float"}

\* the intervals on the lines of the chart, edges in tenths as their labels
\* show them
Intervals == {DistOut.lines[i].label : i \in 1..Len(DistOut.lines)}
LowestEdge == MinOf({l.a : l \in Intervals})
HighestEdge == MaxOf({l.b : l \in Intervals})
\* the least and the largest value of the series, in tenths
MinIn == MinOf({Tenths(CleanIn[i]) : i \in 1..Len(CleanIn)})
MaxIn == MaxOf({Tenths(CleanIn[i]) : i \in 1..Len(CleanIn)})

\* C12 as stated: for a numeric column with non-null values and bins = B the
\* chart shows at most B intervals; they are contiguous (each ends where
\* another begins, up to the last), do not overlap, are of equal width up to
\* the rounding of their edges to one decimal, and their union covers
\* [min(values), max(values)]; this holds for the lines the bar chart renders.
C12_ContiguousCover ==
    Binned =>
        /\ DistOut.type = "chart"
        /\ Len(DistOut.lines) <= direct.bins
        /\ \A l \in Intervals : l.kind = "bin" /\ l.a <= l.b
        /\ LowestEdge <= MinIn
        /\ HighestEdge >= MaxIn
        /\ \A l \in Intervals :
              l.b = HighestEdge \/ \E m \in Intervals : m # l /\ m.a = l.b
        /\ \A l, m \in Intervals :
              /\ l # m => (l.b <= m.a \/ m.b <= l.a)
              /\ Abs((l.b - l.a) - (m.b - m.a)) <= 2

\* the call took the text branch: an object column with a value left
Counted == DistCalled /\ SeriesIn.dtype = "object" /\ CleanIn # << >>

\* how often a value occurs among the non-null values, and where first
Frequency(label) ==
    Cardinality({i \in 1..Len(CleanIn) : LabelOfCell(CleanIn[i]) = label})
FirstSeen(label) ==
    MinOf({i \in 1..Len(CleanIn) : LabelOfCell(CleanIn[i]) = label})
DistinctIn == {LabelOfCell(CleanIn[i]) : i \in 1..Len(CleanIn)}

\* label v comes before label w in the frequency ranking with ties in
\* first-encountered order
RanksBefore(v, w) ==
    \/ Frequency(v) > Frequency(w)
    \/ Frequency(v) = Frequency(w) /\ FirstSeen(v) < FirstSeen(w)

IsPlaceholder(panel) == panel.type = "text"

\* C14 as stated: distribution returns a placeholder panel when no non-null
\* value remains; for a text column it counts the frequencies of the non-null
\* values and charts exactly the top `bins` values by frequency, values of
\* equal frequency in first-encountered order.
C14_TopByFrequency ==
    /\ (DistCalled /\ CleanIn = << >>) => IsPlaceholder(DistOut)
    /\ Counted =>
          /\ DistOut.type = "chart"
          /\ Len(DistOut.lines) =
                (IF direct.bins < Cardinality(DistinctIn)
                 THEN direct.bins ELSE Cardinality(DistinctIn))
          /\ \A i \in 1..Len(DistOut.lines) :
                /\ DistOut.lines[i].label \in DistinctIn
                /\ DistOut.lines[i].value = Frequency(DistOut.lines[i].label)
          /\ \A i, j \in 1..Len(DistOut.lines) :
                i < j => RanksBefore(DistOut.lines[i].label,
                                     DistOut.lines[j].label)
          /\ \A v \in DistinctIn \ Intervals :
                \A w \in Intervals : RanksBefore(w, v)

\* the call took the numeric branch: no object column, a value left
NumericBranch == DistCalled /\ SeriesIn.dtype # "object" /\ CleanIn # << >>

AllNumbers == \A i \in 1..Len(CleanIn) : CleanIn[i].k \in {"int", "float"}
AllEqual == \A i, j \in 1..Len(CleanIn) : CleanIn[i] = CleanIn[j]

\* the panel is the categorical path on the non-null values: the chart of the
\* most frequent values, at most `bins` of them, each with its count
IsFrequencyChart(panel) ==
    /\ panel.type = "chart"
    /\ Len(panel.lines) =
          (IF direct.bins < Cardinality(DistinctIn)
           THEN direct.bins ELSE Cardinality(DistinctIn))
    /\ \A i \in 1..Len(panel.lines) :
          /\ panel.lines[i].label \in DistinctIn
          /\ panel.lines[i].value = Frequency(panel.lines[i].label)
    /\ \A v \in DistinctIn :
          (\A i \in 1..Len(panel.lines) : panel.lines[i].label # v) =>
             \A i \in 1..Len(panel.lines) : panel.lines[i].value >= Frequency(v)

\* C18 as stated: when numeric binning fails, and it does on a degenerate
\* range (all values equal) as on values that cannot be binned, the result is
\* exactly the categorical path on the same non-null values.
C18_DegenerateFallsBack ==
    (NumericBranch /\ (AllEqual \/ ~AllNumbers)) => IsFrequencyChart(DistOut)

\* C18 as amended: binning fails only on values that cannot be binned; the
\* failure is then absorbed and the result is exactly the categorical path
\* on the same non-null values.  A degenerate range is no failure: equal
\* numbers v are binned over [v - 0.5, v + 0.5] and shown as a histogram
\* (with up to the default number of bins, the bin that holds v carries them
\* all).
C18_FallbackOnFailure ==
    /\ (NumericBranch /\ ~AllNumbers) => IsFrequencyChart(DistOut)
    /\ (NumericBranch /\ AllNumbers) =>
          /\ DistOut.type = "chart"
          /\ \A l \in Intervals : l.kind = "bin"
    /\ (NumericBranch /\ AllNumbers /\ AllEqual) =>
          /\ LowestEdge >= MinIn - 5
          /\ HighestEdge <= MinIn + 5
          /\ direct.bins <= DefaultMaxBars =>
                /\ LowestEdge = MinIn - 5
                /\ HighestEdge = MinIn + 5
          /\ direct.bins <= DefaultBins =>
                \E i \in 1..Len(DistOut.lines) :
                   /\ DistOut.lines[i].label.a <= MinIn
                   /\ DistOut.lines[i].label.b >= MinIn
                   /\ DistOut.lines[i].value = Len(CleanIn)
    /\ DistCalled => DistOut.type \in {"chart", "text"}

\* two equal timestamps cannot be binned: the chart has the one line of
\* their frequency count
C18_Witness ==
    /\ NumericBranch
    /\ SeriesIn.dtype = "datetime64"
    /\ Len(CleanIn) = 2
    /\ AllEqual
    /\ Len(DistOut.lines) = 1
    /\ DistOut.lines[1].label.kind = "ts"
    /\ DistOut.lines[1].value = 2

\* C28: a numeric column binned with bins <= 20 keeps its counts: each of
\* the `bins` intervals is a bar of its own and the bar values add up to the
\* number of non-null values, also where intervals share a 'lo-hi' label.
C28_CountsConserved ==
    (Binned /\ direct.bins <= DefaultMaxBars) =>
        /\ DistOut.type = "chart"
        /\ Len(DistOut.lines) = direct.bins
        /\ Sum([i \in 1..Len(DistOut.lines) |-> DistOut.lines[i].value])
              = Len(CleanIn)

---------------------------------------------------------------------------
(* Properties of create_data_table (checked under SpecTable) *)

TableCalled == direct.fn = "create_data_table"
TableShown == direct.out

\* the scalar kind of a cell of the dataset: a whole number in a column that
\* also holds NaN is stored as a float
ScalarKind(col, c) ==
    IF c.k = "null" THEN "null"
    ELSE IF c.k = "float" THEN "float"
    ELSE IF c.k = "int"
    THEN (IF col.dtype = "float64" THEN "float" ELSE "int")
    ELSE "other"

FormatOfKind(kind) ==
    CASE kind = "null" -> "[dim]NULL[/dim]"
      [] kind = "float" -> ".2f"
      [] kind = "int" -> "str"
      [] OTHER -> "str[:50]"

\* C21: the table shows the first min(max_rows, row count) rows of the
\* dataset in order, and every cell in the format of its scalar kind: null as
\* the NULL marker (before any numeric check), float to two decimals, integer
\* as-is, anything else as its string cut to the maximum length.
C21_CellsByKind ==
    (TableCalled /\ ~IsEmpty(DirectIn)) =>
        LET df == DirectIn
            shown == IF direct.max_rows < df.n THEN direct.max_rows ELSE df.n
        IN  /\ TableShown.type = "table"
            /\ TableShown.shown = shown
            /\ TableShown.total = df.n
            /\ Len(TableShown.rows) = shown
            /\ \A i \in 1..shown : \A j \in 1..Len(df.cols) :
                  /\ TableShown.rows[i][j].cell = df.cols[j].vals[i]
                  /\ TableShown.rows[i][j].fmt
                        = FormatOfKind(ScalarKind(df.cols[j],
                                                  df.cols[j].vals[i]))

---------------------------------------------------------------------------
(* Properties of the session tools and the queries (checked under          *)
(* SpecSession)                                                            *)

Sessions == session_mgr.sessions
Current == session_mgr.current_session_id
Queried == reply.op \in {"query_database", "analyze_data"}

\* C22: query_database and analyze_data run the querier agent only if a
\* current session exists and save_connection_code has been called with its
\* id since it was created; otherwise they return the 'No active database
\* connection' message and the querier is not run.  So a new current
\* session is refused queries until connection code is saved for it, even
\* if an earlier session was connected.
C22_QueriesNeedSavedCode ==
    Queried =>
        /\ reply.ran <=> (Current # None /\ Current \in code_saved)
        /\ reply.ran <=> reply.ret # NoConnection

\* session 1 had its code saved, session 2 is current and has not: refused
C22_Witness ==
    /\ reply.op = "query_database"
    /\ Len(Sessions) = 2
    /\ Current = 2
    /\ code_saved = {1}
    /\ Sessions[1].connected
    /\ ~reply.ran
    /\ reply.ret = NoConnection

C23_State ==
    /\ Current = None <=> Sessions = << >>
    /\ Current # None => Current \in StoredIds(session_mgr)
    /\ Current # None => Current = Len(Sessions)
    /\ \A i \in StoredIds(session_mgr) : Sessions[i].session_id = i

C23_Step ==
    /\ StoredIds(session_mgr) \subseteq StoredIds(session_mgr')
    /\ \A i \in StoredIds(session_mgr) :
          /\ session_mgr'.sessions[i].session_id = i
          /\ session_mgr'.sessions[i].db_uri = Sessions[i].db_uri

\* C23: over every sequence of create_database_session,
\* save_connection_code, save_schema_info and get_current_session calls,
\* current_session_id is None (only before the first creation) or the key
\* of a stored session, and then that of the session created last; every
\* stored session's session_id is its key; no session is ever removed, and
\* an earlier session stays retrievable under its id.
C23_ManagerInvariant == []C23_State /\ [][C23_Step]_vars

\* two sessions, the second current, the first still there with what was
\* saved for it
C23_Witness ==
    /\ Len(Sessions) = 2
    /\ Current = 2
    /\ Sessions[1].session_id = 1 /\ Sessions[1].connected
    /\ Sessions[2].session_id = 2 /\ ~Sessions[2].connected
    /\ reply.op = "get_current_session" /\ reply.session_id = 2

\* the value json.loads gives for each text an agent passes
ParsedAs(text) ==
    CASE text = "{\"tables\": [\"t\"]}" -> PyDict(<<"t">>)
      [] text = "null" -> PyNone

\* C26: save_schema_info with a text that is not valid JSON returns an error
\* and leaves the session as it was; with valid JSON and a stored id it sets
\* schema_info to the parsed value and analyzed to True and nothing else;
\* no tool takes connected or analyzed back from True to False.
C26_SchemaSaved ==
    [][/\ (reply'.op = "save_schema_info") =>
             LET id == reply'.session_id
                 text == reply'.kwargs[1].value
             IN  IF text = "{tables"
                 THEN /\ reply'.ret = "Invalid JSON format for schema_info"
                      /\ session_mgr' = session_mgr
                 ELSE /\ reply'.ret = "success"
                      /\ id \in StoredIds(session_mgr) =>
                            session_mgr' =
                               [session_mgr EXCEPT
                                  !.sessions[id].schema_info = ParsedAs(text),
                                  !.sessions[id].analyzed = TRUE]
                      /\ id \notin StoredIds(session_mgr) =>
                            session_mgr' = session_mgr
       /\ \A i \in StoredIds(session_mgr) :
             /\ Sessions[i].connected => session_mgr'.sessions[i].connected
             /\ Sessions[i].analyzed => session_mgr'.sessions[i].analyzed
      ]_vars

\* a text that is no JSON, passed for a session that is connected and
\* analyzed: the error is returned and the session has kept its schema
C26_Witness ==
    /\ reply.op = "save_schema_info"
    /\ reply.kwargs[1].value = "{tables"
    /\ reply.ret = "Invalid JSON format for schema_info"
    /\ reply.session_id = 1
    /\ Sessions[1].analyzed /\ Sessions[1].connected
    /\ Sessions[1].schema_info = PyDict(<<"t">>)

---------------------------------------------------------------------------
(* Properties of SessionManager.update_session (checked under SpecUpdate) *)

Named(kwargs) == {kwargs[i].key : i \in 1..Len(kwargs)}
Given(kwargs, f) == kwargs[CHOOSE i \in 1..Len(kwargs) : kwargs[i].key = f].value

\* C24: update_session changes only the named fields of the one session
\* whose id is given: with an id that is not stored nothing changes (no
\* session is created, current_session_id stays); a keyword that names no
\* attribute of the session is ignored; every other session and every
\* unnamed field of the target stay as they were.
C24_UpdateFrame ==
    [][(reply'.op = "update_session") =>
          LET id == reply'.session_id
              kwargs == reply'.kwargs
          IN  /\ session_mgr'.current_session_id = Current
              /\ Len(session_mgr'.sessions) = Len(Sessions)
              /\ \A i \in StoredIds(session_mgr) :
                    i # id => session_mgr'.sessions[i] = Sessions[i]
              /\ id \notin StoredIds(session_mgr) =>
                    session_mgr' = session_mgr
              /\ id \in StoredIds(session_mgr) =>
                    /\ DOMAIN session_mgr'.sessions[id] = Attributes
                    /\ \A f \in Attributes :
                          session_mgr'.sessions[id][f] =
                             IF f \in Named(kwargs) THEN Given(kwargs, f)
                             ELSE Sessions[id][f]
      ]_vars

\* db_type and a name that is no attribute, given for the first of two
\* sessions: it has the db_type, the second is as it was created
C24_Witness ==
    /\ reply.op = "update_session"
    /\ reply.session_id = 1
    /\ Named(reply.kwargs) = {"db_type", "nickname"}
    /\ Len(Sessions) = 2
    /\ Sessions[1].db_type = "mysql"
    /\ Sessions[2] = DatabaseSession(2, Sessions[2].db_uri)
    /\ Current = 2

---------------------------------------------------------------------------
(* Properties of connect_database (checked under SpecConnect) *)

Returned == conn.pc = "returned"
Connected == "**Connected to database successfully!**"
TimedOut == "Connection timed out after 45 seconds."

\* C25: connect_database returns its 'Connected to ... database
\* successfully!' message only when the current session's connected flag is
\* True; not when the worker ended with 'Failed to create session' or a
\* 'Connection error' result, nor when the call timed out.
C25_SuccessOnlyIfConnected ==
    (Returned /\ conn.ret.msg = Connected) =>
        /\ Current # None
        /\ Sessions[Current].connected
        /\ conn.result \notin {"Failed to create session",
                                "Connection error: "}

\* C27: on every exit path of connect_database (normal completion, the
\* timeout branch, an exception in the executor, an error string from the
\* worker) sys.stdout is again the stream it was before the call, and the
\* function returns only once the worker thread has finished.
C27_RestoredAfterWorker ==
    Returned =>
        /\ sys_stdout = conn.old_stdout
        /\ sys_stdout \in Streams
        /\ conn.worker \in {"none", "done"}

\* the call timed out while stdout had been a log file: it returned with
\* the worker finished and the log file back in place
C27_Witness ==
    /\ Returned
    /\ conn.ret.msg = TimedOut
    /\ conn.worker = "done"
    /\ conn.old_stdout = "logfile"
    /\ sys_stdout = "logfile"

====
